---- MODULE Spec2Model ----
(***************************************************************************)
(* Heater controller (alanmitchell/heater-controller).                     *)
(*                                                                         *)
(* Four threads share one Labjack U3 through U3protected:                  *)
(*   "smp"  AnalogReader.run     (get_analog)                              *)
(*   "pwm"  PWM.run              (set_digital on the heater line)          *)
(*   "ctl"  Controller.run       (set_digital(.., 0) inside turn_off_pwm)  *)
(*   "main" the operator / shutdown caller (property setters,              *)
(*          reset_pid, turn_off_pwm, process exit)                         *)
(*                                                                         *)
(* Numbers.  Duties are counted in quanta of 1/DutyOne, so the float 1.0   *)
(* is DutyOne and 0.0 is 0.  PID gains are counted in the same quantum per *)
(* degree, so P = 1.0 is the gain DutyOne.  Temperature differences are    *)
(* whole degrees, and the time between two PID calls is one unit.  The     *)
(* float NaN is the sentinel NaN, which the arithmetic and comparison      *)
(* operators below treat the IEEE way.                                     *)
(*                                                                         *)
(* simple_pid is a third-party package: PID.__call__, reset and the        *)
(* tunings / output_limits setters are modelled as that package defines    *)
(* them (setpoint 0, error = setpoint - input, integral and output clamped *)
(* to output_limits by comparisons that let NaN through).                  *)
(***************************************************************************)
EXTENDS Integers, Sequences, FiniteSets, TLC

\* ---------------------------------------------------------------- bounds
\* U3protected.timeout (0.5 s) in units of the 1 ms poll sleep, scaled down.
TimeoutTicks == 2
\* Longest time one pass of the poll loop can take, in the same unit.
MaxSleepTicks == 2
\* Resolution of a duty value: the float 1.0.
DutyOne == 3
\* ring_buffer_size (ANALOG_RING_BUFFER_SIZE is 20), scaled down.
RingSize == 3
\* The number of read() calls a counting caller makes on one channel.
MaxReads == 7

\* np.nan
NaN == 9999

Threads == {"smp", "pwm", "ctl", "main"}

\* inner_avg - outer_avg in degrees, as the sensors can make it.
Deltas == {-1, 0, 5}
\* (Kp, Ki, Kd) the operator can choose; the first is P = 1.0, I = 0, D = 0.
Tunings == {<<DutyOne, 0, 0>>, <<1, 1, 1>>}
\* Values the operator can assign to pwm_max: below 0, inside, above 1, NaN.
PwmMaxInputs == {-1, 1, DutyOne + 1, NaN}

\* channel_list: the channel numbers in configured order.
channel_list == <<8, 9>>
ChannelNumbers == {channel_list[i] : i \in 1..Len(channel_list)}
\* Voltages get_analog returns, none of them the 0.0 of np.zeros.
Samples == {1, 2}
\* The last channel of the list is the thermistor supply voltage, which reads
\* the same every time; the others vary.
SamplesOf(ch) == IF ch = channel_list[Len(channel_list)] THEN {2} ELSE Samples

\* The keys of thermistor.coeff.
CoeffKeys == {"Tekmar 071", "Sure 10K", "US Sensor 5K", "US Sensor J",
              "BAPI 10K-3", "InOut", "Quality 10K Z", "ACR", "Quality 10K S",
              "TDK 5K"}
\* Thermistor types a settings file can name: one of the table, one not.
TypeNames == {"TDK 5K", "PT100"}
\* A group of the configuration: no thermistor, or one of either type, wired
\* to the first channel of channel_list.
GroupConfigs == {<<>>} \cup {<<n>> : n \in TypeNames}
\* settings_example: one "TDK 5K" thermistor per group.
ExampleGroup == <<"TDK 5K">>

\* The dictionaries a caller of Thermistor.temperature can pass: for any set
\* of channel numbers, a voltage for each.
ReadingDicts == UNION {[D -> Samples] : D \in SUBSET ChannelNumbers}

\* Temperatures a thermistor returns, in thousandths of a degree, and the
\* largest group followed.
Temps == {69996, 70000, 70004, 75000}
MaxGroup == 2
TempLists == UNION {[1..n -> Temps] : n \in 0..MaxGroup}
NoTemps == [inner |-> <<>>, outer |-> <<>>]
NoVals == [at |-> "start", inner |-> 0, outer |-> 0, delta_t |-> 0]

\* RollingAverage: the largest max_period and the most readings followed,
\* the readings passed, and the state before an object is made.
MaxPeriod == 3
MaxAdds == 5
RaReadings == {0, 1, 3}
NoAverage == [max_period |-> 0, values |-> <<>>, ix |-> 0]
NoCalls == [added |-> <<>>, returned |-> <<0, 1>>]

VARIABLES
    access_lock,      \* U3protected.access_lock
    gpc,              \* per thread: where it is inside a U3protected operation
    elapsed,          \* per thread: time.time() - st in acquire_lock
    garg,             \* per thread: the state argument of its set_digital call
    line,             \* the heater's digital output as the hardware holds it
    value,            \* PWM.value
    pwm_pc,           \* PWM.run: position
    p_log,            \* PWM.run: what the pass under way (or just ended) did
    smp_pc,           \* AnalogReader.run: position
    smp_ch,           \* AnalogReader.run: index in channel_list of `ch`
    chan,             \* per channel number: ring_buffer, first_read, ix
    fed,              \* per channel number: the latest values get_analog
                      \*   returned to read(), at most RingSize of them
    v_pc,             \* AnalogReader.values: position of a caller
    v_ix,             \* AnalogReader.values: index in channel_list of `ch`
    v_snap,           \* AnalogReader.values: the dictionary `values`
    ctl_pc,           \* Controller.run: position
    c_delta,          \* Controller.run: delta_t of the cycle under way
    c_pwm,            \* Controller.run: new_pwm of the cycle under way
    c_mode,           \* Controller.run: the branch the cycle under way took
    c_exc,            \* Controller.run: the except clause ran in this cycle
    enable_control,   \* Controller._enable_control
    enable_on_off,    \* Controller._enable_on_off_control
    pwm_max,          \* Controller._pwm_max
    tunings,          \* pid.tunings
    out_max,          \* pid.output_limits[1]  (the lower limit is always 0.0)
    integral,         \* pid._integral
    last_input,       \* pid._last_input: <<>> is None
    current_results,  \* Controller._current_results
    main_pc,          \* the operator / shutdown caller: position
    groups_ok,        \* configuration: inner and outer group both non-empty
    reads,            \* per channel number: how many calls of read() returned
                      \*   and how many raised, for a caller that counts them
    thermistors,      \* configuration: outer_temps, inner_temps, info_temps,
                      \*   each the sequence of its thermistor types
    lj_dev,           \* "closed" until U3protected() has opened the device
    readings,         \* Controller.run: the dictionary values() returned, for
                      \*   a cycle followed lookup by lookup
    temps,            \* the temperatures the inner and the outer thermistors
                      \*   return in a cycle, in thousandths of a degree
    vals,             \* Controller.run: the averages and delta_t of vals, in
                      \*   hundredths of a degree, and how far the cycle got
    ra,               \* a RollingAverage: max_period, values, ix
                      \*   (max_period 0: none has been made)
    ra_calls          \* its caller: the readings passed to add_reading so
                      \*   far and the value the latest call returned

gatevars == <<access_lock, gpc, elapsed, garg>>
ctlvars == <<ctl_pc, c_delta, c_pwm, c_mode, c_exc>>
pidvars == <<tunings, out_max, integral, last_input>>
parvars == <<enable_control, enable_on_off, pwm_max>>
mainvars == <<main_pc>>
\* The configuration, and what only a caller outside the four threads writes.
cfgvars == <<groups_ok, reads, thermistors, lj_dev, readings, temps, vals,
             ra, ra_calls>>
pwmvars == <<pwm_pc, p_log>>
smpvars == <<smp_pc, smp_ch, chan, fed, v_pc, v_ix, v_snap>>
vars == <<access_lock, gpc, elapsed, garg, line, value, pwm_pc, p_log, smp_pc,
          smp_ch, chan, fed, v_pc, v_ix, v_snap,
          ctl_pc, c_delta, c_pwm, c_mode, c_exc, enable_control,
          enable_on_off, pwm_max, tunings, out_max, integral, last_input,
          current_results, main_pc, groups_ok, reads, thermistors, lj_dev,
          readings, temps, vals, ra, ra_calls>>

\* Everything a gate step of its own leaves alone.
nongate == <<value, pwmvars, smpvars, ctlvars, pidvars, parvars,
             current_results, mainvars, cfgvars>>

\* Positions inside a gate operation.
\*   idle     not inside get_analog / set_digital
\*   test     in acquire_lock's while loop
\*   set      left the loop, access_lock = True not yet executed
\*   hw       lock assigned, the hardware call is running
\*   ok / error / timeout   the operation is returning that outcome
GateReturned == {"ok", "error", "timeout"}
GatePcs == {"idle", "test", "set", "hw"} \cup GateReturned

Min(a, b) == IF a < b THEN a ELSE b
Max(a, b) == IF a > b THEN a ELSE b

\* Daemon threads run until the process exits.
Alive == main_pc # "exited"

\* ------------------------------------------------------- float arithmetic
Add(a, b) == IF a = NaN \/ b = NaN THEN NaN ELSE a + b
Sub(a, b) == IF a = NaN \/ b = NaN THEN NaN ELSE a - b
Mul(a, b) == IF a = NaN \/ b = NaN THEN NaN ELSE a * b
\* a < b and a > b are False when either side is NaN.
Lt(a, b) == a # NaN /\ b # NaN /\ a < b
Gt(a, b) == a # NaN /\ b # NaN /\ a > b

\* ------------------------------------------------------------ U3protected
\* Entry of get_analog / set_digital: acquire_lock() takes st = time.time().
\* elapsed and garg are locals of the call: they are zero outside the part of
\* the call that reads them.
GateEnter(t, a) ==
    /\ gpc[t] = "idle"
    /\ gpc' = [gpc EXCEPT ![t] = "test"]
    /\ elapsed' = [elapsed EXCEPT ![t] = 0]
    /\ garg' = [garg EXCEPT ![t] = a]
    /\ UNCHANGED access_lock

\* One pass of `while self.access_lock:` with a timeout check that never fires.
AcquirePoll_NoTimeout(t) ==
    /\ Alive
    /\ gpc[t] = "test"
    /\ IF ~access_lock
       THEN /\ gpc' = [gpc EXCEPT ![t] = "set"]
            /\ elapsed' = [elapsed EXCEPT ![t] = 0]
            /\ UNCHANGED garg
       ELSE /\ \E d \in 1..MaxSleepTicks :
                 elapsed' = [elapsed EXCEPT ![t] = Min(@ + d, TimeoutTicks + 1)]
            /\ UNCHANGED <<gpc, garg>>
    /\ UNCHANGED <<access_lock, line, nongate>>

\* One pass of `while self.access_lock:` that proceeds as if it had the lock
\* once the timeout has passed.
AcquirePoll_BreakOnTimeout(t) ==
    /\ Alive
    /\ gpc[t] = "test"
    /\ IF ~access_lock \/ elapsed[t] > TimeoutTicks
       THEN /\ gpc' = [gpc EXCEPT ![t] = "set"]
            /\ elapsed' = [elapsed EXCEPT ![t] = 0]
            /\ UNCHANGED garg
       ELSE /\ \E d \in 1..MaxSleepTicks :
                 elapsed' = [elapsed EXCEPT ![t] = Min(@ + d, TimeoutTicks + 1)]
            /\ UNCHANGED <<gpc, garg>>
    /\ UNCHANGED <<access_lock, line, nongate>>

\* One pass of `while self.access_lock:` whose timeout clears the lock on its
\* way out, as the finally clause of the hardware call does.
AcquirePoll_ReleaseOnTimeout(t) ==
    /\ Alive
    /\ gpc[t] = "test"
    /\ IF ~access_lock
       THEN /\ gpc' = [gpc EXCEPT ![t] = "set"]
            /\ elapsed' = [elapsed EXCEPT ![t] = 0]
            /\ UNCHANGED <<garg, access_lock>>
       ELSE IF elapsed[t] > TimeoutTicks
            THEN /\ gpc' = [gpc EXCEPT ![t] = "timeout"]
                 /\ elapsed' = [elapsed EXCEPT ![t] = 0]
                 /\ garg' = [garg EXCEPT ![t] = 0]
                 /\ access_lock' = FALSE
            ELSE /\ \E d \in 1..MaxSleepTicks :
                      elapsed' = [elapsed EXCEPT ![t] = Min(@ + d, TimeoutTicks + 1)]
                 /\ UNCHANGED <<gpc, garg, access_lock>>
    /\ UNCHANGED <<line, nongate>>

\* One pass of acquire_lock's loop: the test of access_lock and, when it is
\* held, the timeout check followed by sleep(0.001).
AcquirePoll(t) ==
    /\ Alive
    /\ gpc[t] = "test"
    /\ IF ~access_lock
       THEN /\ gpc' = [gpc EXCEPT ![t] = "set"]
            /\ elapsed' = [elapsed EXCEPT ![t] = 0]
            /\ UNCHANGED garg
       ELSE IF elapsed[t] > TimeoutTicks
            THEN /\ gpc' = [gpc EXCEPT ![t] = "timeout"]
                 /\ elapsed' = [elapsed EXCEPT ![t] = 0]
                 /\ garg' = [garg EXCEPT ![t] = 0]
            ELSE /\ \E d \in 1..MaxSleepTicks :
                      elapsed' = [elapsed EXCEPT ![t] = Min(@ + d, TimeoutTicks + 1)]
                 /\ UNCHANGED <<gpc, garg>>
    /\ UNCHANGED <<access_lock, line, nongate>>

\* acquire_lock's last statement: self.access_lock = True.
AcquireSet(t) ==
    /\ Alive
    /\ gpc[t] = "set"
    /\ access_lock' = TRUE
    /\ gpc' = [gpc EXCEPT ![t] = "hw"]
    /\ UNCHANGED <<elapsed, garg, line, nongate>>

\* What a completed hardware call does to the heater line: setDOState writes
\* it, getAIN leaves it alone.
LineAfter(t) == IF t = "smp" THEN line ELSE garg[t]

\* The hardware call returning, with the lock cleared only on the normal path.
HwDone_NoFinally(t) ==
    /\ Alive
    /\ gpc[t] = "hw"
    /\ \/ /\ gpc' = [gpc EXCEPT ![t] = "ok"]
          /\ line' = LineAfter(t)
          /\ access_lock' = FALSE
       \/ /\ gpc' = [gpc EXCEPT ![t] = "error"]
          /\ UNCHANGED <<line, access_lock>>
    /\ garg' = [garg EXCEPT ![t] = 0]
    /\ UNCHANGED <<elapsed, nongate>>

\* The hardware call (getAIN / setDOState) returning or raising, and the
\* finally clause: self.access_lock = False.
HwDone(t) ==
    /\ Alive
    /\ gpc[t] = "hw"
    /\ \/ /\ gpc' = [gpc EXCEPT ![t] = "ok"]
          /\ line' = LineAfter(t)
       \/ /\ gpc' = [gpc EXCEPT ![t] = "error"]
          /\ UNCHANGED line
    /\ access_lock' = FALSE
    /\ garg' = [garg EXCEPT ![t] = 0]
    /\ UNCHANGED <<elapsed, nongate>>

\* The operation handing its outcome back to its caller.
GateLeave(t) ==
    /\ gpc[t] \in GateReturned
    /\ gpc' = [gpc EXCEPT ![t] = "idle"]
    /\ UNCHANGED <<access_lock, elapsed, garg>>

GateStep(t) == AcquirePoll(t) \/ AcquireSet(t) \/ HwDone(t)

\* ------------------------------------------------------- simple_pid.PID
Kp == tunings[1]
Ki == tunings[2]
Kd == tunings[3]

\* simple_pid._clamp(value, (lo, hi)).
Clamp(v, lo, hi) == IF Gt(v, hi) THEN hi ELSE IF Lt(v, lo) THEN lo ELSE v

\* error = self.setpoint - input_, with the default setpoint 0.
PidError(input) == Sub(0, input)

\* d_input = input_ - (self._last_input if it is not None else input_)
PidDInput(input) ==
    IF last_input = <<>> THEN Sub(input, input) ELSE Sub(input, last_input[1])

\* self._integral after the call: += Ki * error * dt, clamped to the limits.
PidIntegral(input) ==
    Clamp(Add(integral, Mul(Ki, PidError(input))), 0, out_max)

\* The output with the error taken as input - setpoint.
PidOutput_ErrorIsInput(input) ==
    Clamp(Add(Add(Mul(Kp, input), PidIntegral(input)),
              Sub(0, Mul(Kd, PidDInput(input)))),
          0, out_max)

\* PID.__call__: proportional + integral + derivative, clamped to the limits.
PidOutput(input) ==
    Clamp(Add(Add(Mul(Kp, PidError(input)), PidIntegral(input)),
              Sub(0, Mul(Kd, PidDInput(input)))),
          0, out_max)

\* --------------------------------------------------------- Controller.run
\* What summarize_thermistor_group makes of the snapshot: the difference of
\* two means, or NaN when the inner or the outer group has no thermistor.
ReadDeltas == IF groups_ok THEN Deltas ELSE {NaN}

\* readings = an_reader.values(), the three group summaries and delta_t; a
\* missing channel or a failing conversion raises.
CtlSnapshot ==
    /\ Alive
    /\ ctl_pc = "snap"
    /\ \/ /\ \E d \in ReadDeltas : c_delta' = d
          /\ ctl_pc' = "en"
          /\ UNCHANGED c_exc
       \/ /\ ctl_pc' = "exc"
          /\ c_exc' = TRUE
          /\ UNCHANGED c_delta
    /\ UNCHANGED <<c_pwm, c_mode, gatevars, line, value, pwmvars, smpvars,
                   pidvars, parvars, current_results, mainvars, cfgvars>>

\* `if self.enable_control:` whose else branch stores vals['pwm'] = 0.0 and
\* leaves the actuator's duty as it is.
CtlReadEnable_NoSetValue ==
    /\ Alive
    /\ ctl_pc = "en"
    /\ IF enable_control
       THEN /\ ctl_pc' = "onoff"
            /\ UNCHANGED <<c_pwm, c_mode>>
       ELSE /\ c_pwm' = 0
            /\ c_mode' = "off"
            /\ ctl_pc' = "publish"
    /\ UNCHANGED <<value, c_delta, c_exc, gatevars, line, pwmvars, smpvars, pidvars,
                   parvars, current_results, mainvars, cfgvars>>

\* The cycle going on to the control branch whatever enable_control is.
CtlReadEnable_IgnoresFlag ==
    /\ Alive
    /\ ctl_pc = "en"
    /\ ctl_pc' = "onoff"
    /\ UNCHANGED <<c_pwm, c_mode, value>>
    /\ UNCHANGED <<c_delta, c_exc, gatevars, line, pwmvars, smpvars, pidvars,
                   parvars, current_results, mainvars, cfgvars>>

\* `if self.enable_control:` and its else branch: vals['pwm'] = 0.0 and
\* self.pwm.set_value(0.0).
CtlReadEnable ==
    /\ Alive
    /\ ctl_pc = "en"
    /\ IF enable_control
       THEN /\ ctl_pc' = "onoff"
            /\ UNCHANGED <<c_pwm, c_mode, value>>
       ELSE /\ c_pwm' = 0
            /\ value' = 0
            /\ c_mode' = "off"
            /\ ctl_pc' = "publish"
    /\ UNCHANGED <<c_delta, c_exc, gatevars, line, pwmvars, smpvars, pidvars,
                   parvars, current_results, mainvars, cfgvars>>

\* `if self.enable_on_off_control:`
CtlReadOnOff ==
    /\ Alive
    /\ ctl_pc = "onoff"
    /\ ctl_pc' = IF enable_on_off THEN "bang" ELSE "pid"
    /\ UNCHANGED <<c_delta, c_pwm, c_mode, c_exc, gatevars, line, value, pwmvars,
                   smpvars, pidvars, parvars, current_results, mainvars, cfgvars>>

\* The on/off branch with the comparison delta_t <= 0.
CtlBang_OnAtZero ==
    /\ Alive
    /\ ctl_pc = "bang"
    /\ LET new_pwm == IF Lt(c_delta, 0) \/ c_delta = 0 THEN pwm_max ELSE 0
       IN  /\ c_pwm' = new_pwm
           /\ value' = new_pwm
    /\ c_mode' = "bang"
    /\ ctl_pc' = "publish"
    /\ UNCHANGED <<c_delta, c_exc, gatevars, line, pwmvars, smpvars, pidvars,
                   parvars, current_results, mainvars, cfgvars>>

\* new_pwm = self.pwm_max if delta_t < 0 else 0.0, vals['pwm'] and set_value.
CtlBang ==
    /\ Alive
    /\ ctl_pc = "bang"
    /\ LET new_pwm == IF Lt(c_delta, 0) THEN pwm_max ELSE 0
       IN  /\ c_pwm' = new_pwm
           /\ value' = new_pwm
    /\ c_mode' = "bang"
    /\ ctl_pc' = "publish"
    /\ UNCHANGED <<c_delta, c_exc, gatevars, line, pwmvars, smpvars, pidvars,
                   parvars, current_results, mainvars, cfgvars>>

\* new_pwm = self.pid(delta_t), vals['pwm'] and set_value.
CtlPid ==
    /\ Alive
    /\ ctl_pc = "pid"
    /\ c_pwm' = PidOutput(c_delta)
    /\ value' = PidOutput(c_delta)
    /\ integral' = PidIntegral(c_delta)
    /\ last_input' = <<c_delta>>
    /\ c_mode' = "pid"
    /\ ctl_pc' = "publish"
    /\ UNCHANGED <<c_delta, c_exc, tunings, out_max, gatevars, line, pwmvars,
                   smpvars, parvars, current_results, mainvars, cfgvars>>

\* round(new_pwm, 3), in thousandths: the nearest to d / DutyOne.
Round3(d) == IF d = NaN THEN NaN ELSE (2000 * d + DutyOne) \div (2 * DutyOne)

\* The keys of a finished vals dictionary, and those vals holds when the
\* thread is at a position of the cycle.
ResultKeys == {"inner", "outer", "info", "delta_t", "pwm", "timestamp"}
ValsKeys(pc) ==
    IF pc = "snap" THEN {}
    ELSE IF pc \in {"en", "onoff", "bang", "pid"}
         THEN {"inner", "outer", "info", "delta_t"}
         ELSE {"inner", "outer", "info", "delta_t", "pwm"}

\* The cycle going on to the callback with nothing stored.
CtlPublish_NoStore ==
    /\ Alive
    /\ ctl_pc = "publish"
    /\ ctl_pc' = "callback"
    /\ UNCHANGED <<c_delta, c_pwm, c_mode, c_exc, gatevars, line, value,
                   pwmvars, smpvars, pidvars, parvars, current_results,
                   mainvars, cfgvars>>

\* vals['timestamp'] and self._current_results = vals; vals['pwm'] is
\* round(new_pwm, 3).
CtlPublish ==
    /\ Alive
    /\ ctl_pc = "publish"
    /\ current_results' = [set |-> TRUE,
                           keys |-> ValsKeys(ctl_pc) \cup {"timestamp"},
                           delta_t |-> c_delta,
                           pwm |-> Round3(c_pwm)]
    /\ ctl_pc' = "callback"
    /\ UNCHANGED <<c_delta, c_pwm, c_mode, c_exc, gatevars, line, value,
                   pwmvars, smpvars, pidvars, parvars, mainvars, cfgvars>>

\* `if self.results_callback: self.results_callback(vals)`: there is no
\* callback, or it returns, or it raises.
CtlCallback ==
    /\ Alive
    /\ ctl_pc = "callback"
    /\ c_delta' = 0
    /\ c_pwm' = 0
    /\ c_mode' = "none"
    /\ \/ /\ ctl_pc' = "sleep"
          /\ UNCHANGED c_exc
       \/ /\ ctl_pc' = "exc"
          /\ c_exc' = TRUE
    /\ UNCHANGED <<gatevars, line, value, pwmvars, smpvars, pidvars, parvars,
                   current_results, mainvars, cfgvars>>

\* The except clause with a turn_off_pwm that only writes the digital line.
CtlExcept_NoSetValue ==
    /\ Alive
    /\ ctl_pc = "exc"
    /\ GateEnter("ctl", 0)
    /\ ctl_pc' = "toff"
    /\ UNCHANGED <<value, c_delta, c_pwm, c_mode, c_exc, line, pwmvars, smpvars,
                   pidvars, parvars, current_results, mainvars, cfgvars>>

\* The except clause: turn_off_pwm() sets the duty to 0.0 and calls
\* lj_dev.set_digital(pwm_channel, 0).
CtlExcept ==
    /\ Alive
    /\ ctl_pc = "exc"
    /\ value' = 0
    /\ GateEnter("ctl", 0)
    /\ ctl_pc' = "toff"
    /\ UNCHANGED <<c_delta, c_pwm, c_mode, c_exc, line, pwmvars, smpvars,
                   pidvars, parvars, current_results, mainvars, cfgvars>>

\* turn_off_pwm's set_digital returning: every outcome is swallowed by its
\* try / except, and the finally clause is reached.
CtlTurnOffDone ==
    /\ Alive
    /\ ctl_pc = "toff"
    /\ GateLeave("ctl")
    /\ ctl_pc' = "sleep"
    /\ UNCHANGED <<c_delta, c_pwm, c_mode, c_exc, line, value, pwmvars, smpvars,
                   pidvars, parvars, current_results, mainvars, cfgvars>>

\* finally: time.sleep(self.control_period), then the next pass of the loop.
CtlSleep ==
    /\ Alive
    /\ ctl_pc = "sleep"
    /\ ctl_pc' = "snap"
    /\ c_exc' = FALSE
    /\ UNCHANGED <<c_delta, c_pwm, c_mode, gatevars, line, value, pwmvars,
                   smpvars, pidvars, parvars, current_results, mainvars,
                   cfgvars>>

\* ------------------------------------------- the operator (main thread)
\* enable_control setter.
SetEnable(b) ==
    /\ main_pc = "op"
    /\ enable_control' = b
    /\ UNCHANGED <<enable_on_off, pwm_max, gatevars, line, value, pwmvars,
                   smpvars, ctlvars, pidvars, current_results, mainvars,
                   cfgvars>>

\* enable_on_off_control setter.
SetOnOff(b) ==
    /\ main_pc = "op"
    /\ enable_on_off' = b
    /\ UNCHANGED <<enable_control, pwm_max, gatevars, line, value, pwmvars,
                   smpvars, ctlvars, pidvars, current_results, mainvars,
                   cfgvars>>

\* pid_tunings setter.
SetTunings(k) ==
    /\ main_pc = "op"
    /\ tunings' = k
    /\ UNCHANGED <<out_max, integral, last_input, parvars, gatevars, line,
                   value, pwmvars, smpvars, ctlvars, current_results, mainvars,
                   cfgvars>>

\* Python's max(a, b) and min(a, b) of two floats: b wins only when the
\* comparison b > a (b < a) is True, so a NaN second argument never wins.
PyMax(a, b) == IF Gt(b, a) THEN b ELSE a
PyMin(a, b) == IF Lt(b, a) THEN b ELSE a

\* pwm_max setter whose first statement stores the value as given.
SetPwmMaxBegin_NoClamp(v) ==
    /\ main_pc = "op"
    /\ pwm_max' = v
    /\ main_pc' = "lim"
    /\ UNCHANGED <<enable_control, enable_on_off, gatevars, line, value,
                   pwmvars, smpvars, ctlvars, pidvars, current_results,
                   cfgvars>>

\* pwm_max setter, first statement: self._pwm_max = min(max(0.0, val), 1.0).
SetPwmMaxBegin(v) ==
    /\ main_pc = "op"
    /\ pwm_max' = PyMin(PyMax(0, v), DutyOne)
    /\ main_pc' = "lim"
    /\ UNCHANGED <<enable_control, enable_on_off, gatevars, line, value,
                   pwmvars, smpvars, ctlvars, pidvars, current_results,
                   cfgvars>>

\* pwm_max setter whose second statement leaves the PID's limits alone.
SetPwmMaxEnd_NoInstall ==
    /\ main_pc = "lim"
    /\ main_pc' = "op"
    /\ UNCHANGED <<pidvars, parvars, gatevars, line, value,
                   pwmvars, smpvars, ctlvars, current_results, cfgvars>>

\* pwm_max setter, second statement: self.pid.output_limits = (0.0,
\* self._pwm_max); the limits setter also clamps the integral.
SetPwmMaxEnd ==
    /\ main_pc = "lim"
    /\ out_max' = pwm_max
    /\ integral' = Clamp(integral, 0, pwm_max)
    /\ main_pc' = "op"
    /\ UNCHANGED <<tunings, last_input, parvars, gatevars, line, value,
                   pwmvars, smpvars, ctlvars, current_results, cfgvars>>

\* MainWindow.enable_on_off_change, first statement: the assignment to
\* controller.enable_on_off_control of the checkbox's state.
EnableOnOffChangeBegin(b) ==
    /\ main_pc = "op"
    /\ enable_on_off' = b
    /\ main_pc' = "rst"
    /\ UNCHANGED <<enable_control, pwm_max, gatevars, line, value, pwmvars,
                   smpvars, ctlvars, pidvars, current_results, cfgvars>>

\* MainWindow.enable_on_off_change without its second statement.
EnableOnOffChangeEnd_NoReset ==
    /\ main_pc = "rst"
    /\ main_pc' = "op"
    /\ UNCHANGED <<pidvars, parvars, gatevars, line, value, pwmvars, smpvars,
                   ctlvars, current_results, cfgvars>>

\* MainWindow.enable_on_off_change, second statement:
\* self.controller.reset_pid().
EnableOnOffChangeEnd ==
    /\ main_pc = "rst"
    /\ integral' = 0
    /\ last_input' = <<>>
    /\ main_pc' = "op"
    /\ UNCHANGED <<tunings, out_max, parvars, gatevars, line, value, pwmvars,
                   smpvars, ctlvars, current_results, cfgvars>>

\* reset_pid() as it would be if pid.reset() cleared the integral only.
ResetPid_IntegralOnly ==
    /\ main_pc = "op"
    /\ integral' = 0
    /\ UNCHANGED <<tunings, out_max, last_input, parvars, gatevars, line, value,
                   pwmvars, smpvars, ctlvars, current_results, mainvars,
                   cfgvars>>

\* reset_pid(): pid.reset() zeroes the three terms and forgets the last input.
ResetPid ==
    /\ main_pc = "op"
    /\ integral' = 0
    /\ last_input' = <<>>
    /\ UNCHANGED <<tunings, out_max, parvars, gatevars, line, value, pwmvars,
                   smpvars, ctlvars, current_results, mainvars, cfgvars>>

\* turn_off_pwm() called by the operator: set_value(0.0), then the call of
\* set_digital(pwm_channel, 0).
TurnOffBegin ==
    /\ main_pc = "op"
    /\ value' = 0
    /\ GateEnter("main", 0)
    /\ main_pc' = "toff"
    /\ UNCHANGED <<line, pwmvars, smpvars, ctlvars, pidvars, parvars,
                   current_results, cfgvars>>

\* ... and its set_digital returning: every outcome is swallowed.
TurnOffEnd ==
    /\ main_pc = "toff"
    /\ GateLeave("main")
    /\ main_pc' = "op"
    /\ UNCHANGED <<line, value, pwmvars, smpvars, ctlvars, pidvars, parvars,
                   current_results, cfgvars>>

\* main()'s finally clause: the cleanup call of turn_off_pwm().
ShutdownBegin ==
    /\ main_pc = "op"
    /\ value' = 0
    /\ GateEnter("main", 0)
    /\ main_pc' = "sd_toff"
    /\ UNCHANGED <<line, pwmvars, smpvars, ctlvars, pidvars, parvars,
                   current_results, cfgvars>>

\* The cleanup call has returned; the interpreter has not exited yet.
ShutdownEnd ==
    /\ main_pc = "sd_toff"
    /\ GateLeave("main")
    /\ main_pc' = "sd_done"
    /\ UNCHANGED <<line, value, pwmvars, smpvars, ctlvars, pidvars, parvars,
                   current_results, cfgvars>>

\* The process exits: the daemon threads stop where they are.
Exit ==
    /\ main_pc = "sd_done"
    /\ main_pc' = "exited"
    /\ UNCHANGED <<gatevars, line, value, pwmvars, smpvars, ctlvars, pidvars,
                   parvars, current_results, cfgvars>>

\* ---------------------------------------------------------------- PWM.run
\* p_log holds the events of one pass of the `while True:` body, in order:
\*   <<"r", v>>  self.value read as v by an `if`
\*   <<"w", a>>  set_digital(ch, a) returned normally
\*   <<"s", k>>  time.sleep of k, the period being DutyOne
\*   <<"x", 0>>  an exception reached the except clause
\* It is emptied when the next pass starts.
Ev(kind, n) == <<kind, n>>
PwmRest == <<line, value, smpvars, ctlvars, pidvars, parvars,
             current_results, mainvars, cfgvars>>

\* PWM.set_value, called by any thread.
SetValue(v) ==
    /\ Alive
    /\ value' = v
    /\ UNCHANGED <<gatevars, line, pwmvars, smpvars, ctlvars, pidvars, parvars,
                   current_results, mainvars, cfgvars>>

\* `if self.value != 0.0:` and the call of set_digital the branch makes.
PwmTop ==
    /\ Alive
    /\ pwm_pc = "top"
    /\ p_log' = <<Ev("r", value)>>
    /\ IF value # 0
       THEN GateEnter("pwm", 1) /\ pwm_pc' = "w_hi"
       ELSE GateEnter("pwm", 0) /\ pwm_pc' = "w_off"
    /\ UNCHANGED PwmRest

\* set_digital(ch, 1) returning, with the partial branch taken whatever the
\* duty is.
PwmHighDone_AlwaysPartial ==
    /\ Alive
    /\ pwm_pc = "w_hi"
    /\ GateLeave("pwm")
    /\ IF gpc["pwm"] # "ok"
       THEN p_log' = Append(p_log, Ev("x", 0)) /\ pwm_pc' = "top"
       ELSE /\ p_log' = p_log \o <<Ev("w", 1), Ev("r", value)>>
            /\ pwm_pc' = "hi_arg"
    /\ UNCHANGED PwmRest

\* set_digital(ch, 1) returning, where an exception ends the thread.
PwmHighDone_Dies ==
    /\ Alive
    /\ pwm_pc = "w_hi"
    /\ GateLeave("pwm")
    /\ IF gpc["pwm"] # "ok"
       THEN p_log' = Append(p_log, Ev("x", 0)) /\ pwm_pc' = "dead"
       ELSE IF value # DutyOne
            THEN /\ p_log' = p_log \o <<Ev("w", 1), Ev("r", value)>>
                 /\ pwm_pc' = "hi_arg"
            ELSE /\ p_log' = p_log \o <<Ev("w", 1), Ev("r", value),
                                        Ev("s", DutyOne)>>
                 /\ pwm_pc' = "top"
    /\ UNCHANGED PwmRest

\* set_digital(ch, 1) returning.  A raise goes to the except clause and the
\* next pass; otherwise `if self.value != 1.0:` chooses partial on, or full
\* on with sleep(self.period).
PwmHighDone ==
    /\ Alive
    /\ pwm_pc = "w_hi"
    /\ GateLeave("pwm")
    /\ IF gpc["pwm"] # "ok"
       THEN p_log' = Append(p_log, Ev("x", 0)) /\ pwm_pc' = "top"
       ELSE IF value # DutyOne
            THEN /\ p_log' = p_log \o <<Ev("w", 1), Ev("r", value)>>
                 /\ pwm_pc' = "hi_arg"
            ELSE /\ p_log' = p_log \o <<Ev("w", 1), Ev("r", value),
                                        Ev("s", DutyOne)>>
                 /\ pwm_pc' = "top"
    /\ UNCHANGED PwmRest

\* time.sleep(self.period * self.value), which raises ValueError on NaN, and
\* the call of set_digital(ch, 0).
PwmHighSleep ==
    /\ Alive
    /\ pwm_pc = "hi_arg"
    /\ IF value = NaN
       THEN /\ p_log' = Append(p_log, Ev("x", 0))
            /\ pwm_pc' = "top"
            /\ UNCHANGED gatevars
       ELSE /\ p_log' = Append(p_log, Ev("s", value))
            /\ GateEnter("pwm", 0)
            /\ pwm_pc' = "w_lo"
    /\ UNCHANGED PwmRest

\* The low sleep of the partial branch taken as period * value.
LowSleep_OfValue(pc) ==
    IF pc = "w_off" THEN <<Ev("s", DutyOne)>>
    ELSE IF value = NaN \/ value > DutyOne THEN <<Ev("x", 0)>>
    ELSE <<Ev("s", value)>>

\* What follows a normal return of set_digital(ch, 0): in the partial branch
\* time.sleep(self.period * (1.0 - self.value)), which raises ValueError on
\* NaN and on a negative length; in the off branch time.sleep(self.period).
LowSleep(pc) ==
    IF pc = "w_off" THEN <<Ev("s", DutyOne)>>
    ELSE IF value = NaN \/ value > DutyOne THEN <<Ev("x", 0)>>
    ELSE <<Ev("s", DutyOne - value)>>

\* set_digital(ch, 0) returning in the partial or the off branch, followed by
\* the sleep for the rest of the period (or by the except clause).
PwmLowDone ==
    /\ Alive
    /\ pwm_pc \in {"w_lo", "w_off"}
    /\ GateLeave("pwm")
    /\ p_log' = IF gpc["pwm"] # "ok"
                THEN Append(p_log, Ev("x", 0))
                ELSE Append(p_log, Ev("w", 0)) \o LowSleep(pwm_pc)
    /\ pwm_pc' = "top"
    /\ UNCHANGED PwmRest

\* ---------------------------------------------------------- AnalogChannel
\* AnalogChannel.__init__: np.zeros(ring_buffer_size), first_read, ix.
NewChannel ==
    [ring_buffer |-> [j \in 1..RingSize |-> 0], first_read |-> TRUE, ix |-> 0]

\* AnalogChannel.read after get_analog returned val, with ix left where it is.
ChannelRead_NoAdvance(c, val) ==
    [ring_buffer |-> IF c.first_read
                     THEN [j \in 1..RingSize |-> val]
                     ELSE [c.ring_buffer EXCEPT ![c.ix + 1] = val],
     first_read |-> FALSE,
     ix |-> c.ix]

\* AnalogChannel.read after get_analog returned val, the first read writing
\* one slot like every other read.
ChannelRead_NoSeed(c, val) ==
    [ring_buffer |-> [c.ring_buffer EXCEPT ![c.ix + 1] = val],
     first_read |-> FALSE,
     ix |-> (c.ix + 1) % RingSize]

\* AnalogChannel.read after get_analog returned val, with an ix that is
\* incremented and never wrapped.
ChannelRead_NoWrap(c, val) ==
    [ring_buffer |-> IF c.first_read
                     THEN [j \in 1..RingSize |-> val]
                     ELSE [j \in 1..RingSize |->
                              IF j = c.ix + 1 THEN val ELSE c.ring_buffer[j]],
     first_read |-> FALSE,
     ix |-> c.ix + 1]

\* AnalogChannel.read after get_analog returned val: the first read fills
\* the whole buffer, a later one writes slot ix; ix advances and wraps.
\* (Slot j of the numpy array is element j + 1 here.)
ChannelRead(c, val) ==
    [ring_buffer |-> IF c.first_read
                     THEN [j \in 1..RingSize |-> val]
                     ELSE [c.ring_buffer EXCEPT ![c.ix + 1] = val],
     first_read |-> FALSE,
     ix |-> (c.ix + 1) % RingSize]

RECURSIVE SumSeq(_)
SumSeq(q) == IF q = <<>> THEN 0 ELSE q[1] + SumSeq(Tail(q))

\* AnalogChannel.value: ring_buffer.mean(), kept as the fraction
\* <<sum, number of elements>>.
Mean(q) == <<SumSeq(q), Len(q)>>
SameNumber(a, b) == a[1] * b[2] = b[1] * a[2]

\* The last n elements of q (all of q when it is shorter).
LastN(q, n) == IF Len(q) <= n THEN q ELSE SubSeq(q, Len(q) - n + 1, Len(q))

\* ------------------------------------------------------- AnalogReader.run
NextIx(i) == IF i = Len(channel_list) THEN 1 ELSE i + 1

SmpRest == <<line, value, pwmvars, ctlvars, pidvars, parvars,
             current_results, mainvars, cfgvars>>

\* ch.read(): the call of get_analog for the channel the for loop is at.
SmpRead ==
    /\ Alive
    /\ smp_pc = "idle"
    /\ GateEnter("smp", 0)
    /\ smp_pc' = "read"
    /\ UNCHANGED <<smp_ch, chan, fed, v_pc, v_ix, v_snap>>
    /\ UNCHANGED SmpRest

\* get_analog returning or raising, where the loop stays on a channel whose
\* read raised.
SmpDone_RetryOnError ==
    /\ Alive
    /\ smp_pc = "read"
    /\ GateLeave("smp")
    /\ LET ch == channel_list[smp_ch] IN
       IF gpc["smp"] = "ok"
       THEN /\ \E val \in SamplesOf(ch) :
                 /\ chan' = [chan EXCEPT ![ch] = ChannelRead(@, val)]
                 /\ fed' = [fed EXCEPT ![ch] = LastN(Append(@, val), RingSize)]
            /\ smp_ch' = NextIx(smp_ch)
       ELSE UNCHANGED <<chan, fed, smp_ch>>
    /\ smp_pc' = "idle"
    /\ UNCHANGED <<v_pc, v_ix, v_snap>>
    /\ UNCHANGED SmpRest

\* get_analog returning or raising, where a read that raised is followed by
\* the next channel's read at once, without the sleep.
SmpDone_NoSleepOnError ==
    /\ Alive
    /\ smp_pc = "read"
    /\ gpc["smp"] \in GateReturned
    /\ LET ch == channel_list[smp_ch] IN
       IF gpc["smp"] = "ok"
       THEN /\ \E val \in SamplesOf(ch) :
                 /\ chan' = [chan EXCEPT ![ch] = ChannelRead(@, val)]
                 /\ fed' = [fed EXCEPT ![ch] = LastN(Append(@, val), RingSize)]
            /\ gpc' = [gpc EXCEPT !["smp"] = "idle"]
            /\ smp_pc' = "idle"
       ELSE /\ UNCHANGED <<chan, fed>>
            /\ gpc' = [gpc EXCEPT !["smp"] = "test"]
            /\ smp_pc' = "read"
    /\ smp_ch' = NextIx(smp_ch)
    /\ UNCHANGED <<access_lock, elapsed, garg, v_pc, v_ix, v_snap>>
    /\ UNCHANGED SmpRest

\* get_analog returning or raising, where a read that raised has first_read
\* cleared and ix advanced as a read that returned has.
SmpDone_AdvanceOnError ==
    /\ Alive
    /\ smp_pc = "read"
    /\ GateLeave("smp")
    /\ LET ch == channel_list[smp_ch] IN
       IF gpc["smp"] = "ok"
       THEN \E val \in SamplesOf(ch) :
                 /\ chan' = [chan EXCEPT ![ch] = ChannelRead(@, val)]
                 /\ fed' = [fed EXCEPT ![ch] = LastN(Append(@, val), RingSize)]
       ELSE /\ chan' = [chan EXCEPT ![ch].first_read = FALSE,
                                    ![ch].ix = (@ + 1) % RingSize]
            /\ UNCHANGED fed
    /\ smp_ch' = NextIx(smp_ch)
    /\ smp_pc' = "idle"
    /\ UNCHANGED <<v_pc, v_ix, v_snap>>
    /\ UNCHANGED SmpRest

\* get_analog returning or raising inside ch.read(): on a value the rest of
\* read() updates the channel; an exception is caught; either way the thread
\* sleeps read_spacing and the for loop moves to the next channel.
SmpDone ==
    /\ Alive
    /\ smp_pc = "read"
    /\ GateLeave("smp")
    /\ LET ch == channel_list[smp_ch] IN
       IF gpc["smp"] = "ok"
       THEN \E val \in SamplesOf(ch) :
                 /\ chan' = [chan EXCEPT ![ch] = ChannelRead(@, val)]
                 /\ fed' = [fed EXCEPT ![ch] = LastN(Append(@, val), RingSize)]
       ELSE UNCHANGED <<chan, fed>>
    /\ smp_ch' = NextIx(smp_ch)
    /\ smp_pc' = "idle"
    /\ UNCHANGED <<v_pc, v_ix, v_snap>>
    /\ UNCHANGED SmpRest

\* ---------------------------------------------------- AnalogReader.values
\* A thread calls values(): values = {} and the for loop starts.
ValuesCall ==
    /\ Alive
    /\ v_pc = "idle"
    /\ v_pc' = "avg"
    /\ v_ix' = 1
    /\ v_snap' = <<>>
    /\ UNCHANGED <<smp_pc, smp_ch, chan, fed, gatevars>>
    /\ UNCHANGED SmpRest

\* The entry made under the position in channel_list, not the channel number.
SnapEntry_KeyByIndex(i) == i :> Mean(chan[channel_list[i]].ring_buffer)

\* values[ch.channel_number] = ch.value() for the i-th channel object.
SnapEntry(i) == channel_list[i] :> Mean(chan[channel_list[i]].ring_buffer)

\* One pass of the for loop of values(); after the last channel the
\* dictionary is returned.
ValuesAvg ==
    /\ Alive
    /\ v_pc = "avg"
    /\ v_snap' = SnapEntry(v_ix) @@ v_snap
    /\ IF v_ix = Len(channel_list)
       THEN v_pc' = "ret" /\ v_ix' = 0
       ELSE v_pc' = "avg" /\ v_ix' = v_ix + 1
    /\ UNCHANGED <<smp_pc, smp_ch, chan, fed, gatevars>>
    /\ UNCHANGED SmpRest

\* The caller has taken the dictionary.
ValuesReturn ==
    /\ Alive
    /\ v_pc = "ret"
    /\ v_pc' = "idle"
    /\ v_snap' = <<>>
    /\ UNCHANGED <<v_ix, smp_pc, smp_ch, chan, fed, gatevars>>
    /\ UNCHANGED SmpRest

\* ------------------------------------------------------------------- Init
\* The state once the objects are constructed and the threads started, for a
\* PWM made with init_value d0: both enable flags False, the initial tunings
\* and the clamped initial pwm_max installed in the PID.
InitOf(d0) ==
    /\ access_lock = FALSE
    /\ gpc = [t \in Threads |-> "idle"]
    /\ elapsed = [t \in Threads |-> 0]
    /\ garg = [t \in Threads |-> 0]
    /\ line = 0
    /\ value = d0
    /\ pwm_pc = "top"
    /\ p_log = <<>>
    /\ smp_pc = "idle"
    /\ smp_ch = 1
    /\ chan = [c \in ChannelNumbers |-> NewChannel]
    /\ fed = [c \in ChannelNumbers |-> <<>>]
    /\ v_pc = "idle"
    /\ v_ix = 0
    /\ v_snap = <<>>
    /\ ctl_pc = "snap"
    /\ c_delta = 0
    /\ c_pwm = 0
    /\ c_mode = "none"
    /\ c_exc = FALSE
    /\ enable_control = FALSE
    /\ enable_on_off = FALSE
    /\ pwm_max \in {PyMin(PyMax(0, v), DutyOne) : v \in PwmMaxInputs}
    /\ out_max = pwm_max
    /\ tunings \in Tunings
    /\ integral = 0
    /\ last_input = <<>>
    /\ current_results = [set |-> FALSE, keys |-> {}, delta_t |-> 0, pwm |-> 0]
    /\ main_pc = "op"
    /\ groups_ok \in BOOLEAN
    /\ reads = [c \in ChannelNumbers |-> [ok |-> 0, failed |-> 0]]
    /\ thermistors = [outer |-> IF groups_ok THEN ExampleGroup ELSE <<>>,
                      inner |-> ExampleGroup,
                      info |-> ExampleGroup]
    /\ lj_dev = "open"
    /\ readings = <<>>
    /\ temps = NoTemps
    /\ vals = NoVals
    /\ ra = NoAverage
    /\ ra_calls = NoCalls

\* Controller.__init__ makes its PWM with the default init_value 0.0.
Init == InitOf(0)

\* A configuration with non-empty thermistor groups, init_pwm_max 1.0 and
\* proportional-only initial tunings.
InitExample ==
    /\ Init
    /\ pwm_max = DutyOne
    /\ tunings = <<DutyOne, 0, 0>>
    /\ groups_ok

\* ------------------------------------------------- the whole application
Next ==
    \/ \E t \in Threads : AcquirePoll(t) \/ AcquireSet(t) \/ HwDone(t)
    \/ SmpRead \/ SmpDone
    \/ ValuesCall \/ ValuesAvg \/ ValuesReturn
    \/ PwmTop \/ PwmHighDone \/ PwmHighSleep \/ PwmLowDone
    \/ CtlSnapshot \/ CtlReadEnable \/ CtlReadOnOff \/ CtlBang \/ CtlPid
    \/ CtlPublish \/ CtlCallback \/ CtlExcept \/ CtlTurnOffDone \/ CtlSleep
    \/ \E b \in BOOLEAN : SetEnable(b) \/ SetOnOff(b)
    \/ \E k \in Tunings : SetTunings(k)
    \/ \E v \in PwmMaxInputs : SetPwmMaxBegin(v)
    \/ SetPwmMaxEnd \/ ResetPid \/ TurnOffBegin \/ TurnOffEnd
    \/ ShutdownBegin \/ ShutdownEnd \/ Exit

Spec == Init /\ [][Next]_vars

\* ------------------------------------------------ the gate and its callers
\* Any thread calling get_analog (the sampler) or set_digital at any time.
GateCall(t) ==
    /\ \E a \in (IF t = "pwm" THEN {0, 1} ELSE {0}) : GateEnter(t, a)
    /\ UNCHANGED <<line, nongate>>

GateReturn(t) ==
    /\ GateLeave(t)
    /\ UNCHANGED <<line, nongate>>

GateNext ==
    \E t \in Threads :
        \/ GateCall(t)
        \/ AcquirePoll(t)
        \/ AcquireSet(t)
        \/ HwDone(t)
        \/ GateReturn(t)

GateSpec == InitExample /\ [][GateNext]_vars

\* Every thread keeps running and every hardware call terminates.
GateFairSpec ==
    GateSpec /\ \A t \in Threads : WF_vars(GateStep(t) \/ GateReturn(t))

\* ------------------------------- the control thread and the operator
\* The PWM and sampler threads write no variable of the control cycle; they
\* meet the control thread only at the gate, where they cause the outcomes
\* (ok, error, timeout) that the operator's own turn_off_pwm causes here.
CtlNext ==
    \/ \E t \in {"ctl", "main"} : AcquirePoll(t) \/ AcquireSet(t) \/ HwDone(t)
    \/ CtlSnapshot \/ CtlReadEnable \/ CtlReadOnOff \/ CtlBang \/ CtlPid
    \/ CtlPublish \/ CtlCallback \/ CtlExcept \/ CtlTurnOffDone \/ CtlSleep
    \/ \E b \in BOOLEAN : SetEnable(b) \/ SetOnOff(b)
    \/ \E k \in Tunings : SetTunings(k)
    \/ \E v \in PwmMaxInputs : SetPwmMaxBegin(v)
    \/ SetPwmMaxEnd \/ ResetPid \/ TurnOffBegin \/ TurnOffEnd

CtlSpec == Init /\ [][CtlNext]_vars

\* ------------------------------------------------------------- shutdown
\* The actuator, the control thread and a shutdown caller whose operator
\* only switches the heater on and off before closing the application.
ShutNext ==
    \/ \E t \in {"pwm", "ctl", "main"} : AcquirePoll(t) \/ AcquireSet(t) \/ HwDone(t)
    \/ PwmTop \/ PwmHighDone \/ PwmHighSleep \/ PwmLowDone
    \/ CtlSnapshot \/ CtlReadEnable \/ CtlReadOnOff \/ CtlBang \/ CtlPid
    \/ CtlPublish \/ CtlCallback \/ CtlExcept \/ CtlTurnOffDone \/ CtlSleep
    \/ \E b \in BOOLEAN : SetEnable(b) \/ SetOnOff(b)
    \/ ShutdownBegin \/ ShutdownEnd \/ Exit

ShutSpec == InitExample /\ [][ShutNext]_vars

\* ------------------------------------------------------------ the actuator
\* The duties a caller of set_value, or of PWM(..., init_value), passes.
DutyValues == 0..DutyOne

\* The PWM thread next to another user of the device (the sampler's
\* get_analog calls), with nobody calling set_value: test_pwm.py's PWM made
\* with init_value = the duty.
PwmConstInit ==
    /\ \E d \in DutyValues : InitOf(d)
    /\ pwm_max = DutyOne
    /\ tunings = <<DutyOne, 0, 0>>
    /\ groups_ok

PwmStep == PwmTop \/ PwmHighDone \/ PwmHighSleep \/ PwmLowDone

PwmConstNext ==
    \/ \E t \in {"pwm", "smp"} : AcquirePoll(t) \/ AcquireSet(t) \/ HwDone(t)
    \/ PwmTop \/ PwmHighDone \/ PwmHighSleep \/ PwmLowDone
    \/ GateCall("smp") \/ GateReturn("smp")

PwmConstSpec == PwmConstInit /\ [][PwmConstNext]_vars

\* The same with set_value called at any time by the other threads.
PwmNext ==
    \/ \E t \in {"pwm", "smp"} : AcquirePoll(t) \/ AcquireSet(t) \/ HwDone(t)
    \/ PwmTop \/ PwmHighDone \/ PwmHighSleep \/ PwmLowDone
    \/ GateCall("smp") \/ GateReturn("smp")
    \/ \E v \in DutyValues : SetValue(v)

PwmSpec == InitExample /\ [][PwmNext]_vars

\* Both threads keep running and every hardware call terminates.
PwmFairSpec ==
    /\ PwmSpec
    /\ WF_vars(PwmStep \/ GateStep("pwm"))
    /\ WF_vars(GateStep("smp") \/ GateReturn("smp"))

\* -------------------------------------------------------------- the sampler
\* The sampler thread beside another user of the device (the control
\* thread's set_digital(ch, 0) calls).
SmpStep == SmpRead \/ SmpDone

SmpNext ==
    \/ \E t \in {"smp", "ctl"} : AcquirePoll(t) \/ AcquireSet(t) \/ HwDone(t)
    \/ SmpRead \/ SmpDone
    \/ GateCall("ctl") \/ GateReturn("ctl")

SmpSpec == InitExample /\ [][SmpNext]_vars

\* Both threads keep running and every hardware call terminates.
SmpFairSpec ==
    /\ SmpSpec
    /\ WF_vars(SmpStep \/ GateStep("smp"))
    /\ WF_vars(GateStep("ctl") \/ GateReturn("ctl"))

\* The sampler thread and a thread that calls values() again and again.
SnapNext ==
    \/ AcquirePoll("smp") \/ AcquireSet("smp") \/ HwDone("smp")
    \/ SmpRead \/ SmpDone
    \/ ValuesCall \/ ValuesAvg \/ ValuesReturn

SnapSpec == InitExample /\ [][SnapNext]_vars

TypeOK ==
    /\ access_lock \in BOOLEAN
    /\ gpc \in [Threads -> GatePcs]
    /\ elapsed \in [Threads -> 0..(TimeoutTicks + 1)]
    /\ garg \in [Threads -> {0, 1}]
    /\ line \in {0, 1}
    /\ value \in 0..DutyOne \cup {NaN}
    /\ pwm_pc \in {"new", "top", "w_hi", "hi_arg", "w_lo", "w_off"}
    /\ p_log \in Seq({"r", "w", "s", "x"} \X (0..DutyOne \cup {NaN}))
    /\ smp_pc \in {"new", "idle", "read"}
    /\ smp_ch \in 1..Len(channel_list)
    /\ \A c \in ChannelNumbers :
          /\ chan[c].ring_buffer \in [1..RingSize -> Samples \cup {0}]
          /\ chan[c].first_read \in BOOLEAN
          /\ chan[c].ix \in 0..(RingSize - 1)
          /\ fed[c] \in Seq(Samples) /\ Len(fed[c]) <= RingSize
    /\ v_pc \in {"idle", "avg", "ret"}
    /\ v_ix \in 0..Len(channel_list)
    /\ ctl_pc \in {"new", "snap", "summ", "en", "onoff", "bang", "pid", "publish",
                   "callback", "exc", "toff", "sleep"}
    /\ c_mode \in {"none", "off", "bang", "pid"}
    /\ c_exc \in BOOLEAN
    /\ enable_control \in BOOLEAN
    /\ enable_on_off \in BOOLEAN
    /\ pwm_max \in 0..DutyOne
    /\ out_max \in 0..DutyOne
    /\ tunings \in Tunings
    /\ integral \in 0..DutyOne \cup {NaN}
    /\ main_pc \in {"ctor", "ctor_dev", "ctor_pwm", "ctor_reader", "ctor_sleep", "ctor_sleep2", "ctor_pid",
                    "ctor_raised", "op", "rst", "lim", "toff", "sd_toff",
                    "sd_done", "exited"}
    /\ groups_ok \in BOOLEAN
    /\ reads \in [ChannelNumbers -> [ok : 0..MaxReads, failed : 0..MaxReads]]
    /\ thermistors \in [outer : GroupConfigs, inner : GroupConfigs,
                         info : GroupConfigs]
    /\ lj_dev \in {"closed", "open"}
    /\ readings \in ReadingDicts
    /\ temps \in [inner : TempLists, outer : TempLists]
    /\ ra.max_period \in 0..MaxPeriod
    /\ ra.values \in UNION {[1..n -> RaReadings] : n \in 0..MaxPeriod}
    /\ ra.ix \in 0..MaxPeriod
    /\ ra_calls.added \in UNION {[1..n -> RaReadings] : n \in 0..MaxAdds}
    /\ ra_calls.returned \in Nat \X Nat
    /\ vals \in [at : {"start", "summarized", "delta_t"},
                  inner : Int \cup {NaN}, outer : Int \cup {NaN},
                  delta_t : Int \cup {NaN}]

\* C1: at most one hardware call (getAIN / setDOState / getDIOState) is in
\* flight at any instant.
C1_MutualExclusion == Cardinality({t \in Threads : gpc[t] = "hw"}) <= 1

\* C7: a gate operation that has found access_lock held past its timeout
\* fails with the timeout error on its next pass of the loop: it neither
\* goes on waiting nor claims the lock nor reaches the hardware, and a
\* timeout is raised in no other situation.
C7_GateTimeout ==
    [][\A t \in Threads :
        /\ (gpc[t] = "test" /\ access_lock /\ elapsed[t] > TimeoutTicks
                /\ gpc'[t] # "test")
            => (gpc'[t] = "timeout" /\ access_lock' = access_lock /\ line' = line)
        /\ (gpc'[t] = "timeout" /\ gpc[t] # "timeout")
            => (gpc[t] = "test" /\ access_lock /\ elapsed[t] > TimeoutTicks)
        /\ (gpc[t] = "timeout" /\ gpc'[t] # "timeout")
            => (gpc'[t] = "idle" /\ access_lock' = access_lock /\ line' = line)
      ]_vars

\* C7 witness: some operation is returning the timeout error while the lock
\* is still held by another operation's hardware call.
C7_Witness ==
    \E t \in Threads : gpc[t] = "timeout" /\ access_lock
                          /\ \E u \in Threads \ {t} : gpc[u] = "hw"

\* C8: an operation that holds the lock leaves its hardware call only with
\* access_lock cleared, on the normal path and on the raising path, and it
\* returns to its caller only after that.
C8_GuaranteedRelease ==
    [][\A t \in Threads :
        /\ (gpc[t] = "hw" /\ gpc'[t] # "hw")
            => (gpc'[t] \in {"ok", "error"} /\ access_lock' = FALSE)
        /\ (gpc'[t] \in {"ok", "error"} /\ gpc[t] # gpc'[t]) => gpc[t] = "hw"
        /\ (gpc'[t] = "idle" /\ gpc[t] # "idle") => gpc[t] \in GateReturned
      ]_vars

\* C8 witness: a hardware call has raised and the lock is clear.
C8_Witness ==
    \E t \in Threads : gpc[t] = "error" /\ ~access_lock
                          /\ \A u \in Threads \ {t} : gpc[u] \in {"idle", "test"}

\* C9: every gate operation eventually completes or raises the timeout;
\* access_lock is never True with no hardware call in flight, and a held gate
\* always becomes free again.
C9_NoIndefiniteBlocking ==
    /\ [](access_lock => \E t \in Threads : gpc[t] = "hw")
    /\ access_lock ~> ~access_lock
    /\ \A t \in Threads :
          (gpc[t] \in {"test", "set", "hw"}) ~> (gpc[t] \in GateReturned)

\* C9 witness: an operation has been waiting on a lock another one holds.
C9_Witness ==
    \E t \in Threads : gpc[t] = "test" /\ elapsed[t] > 0 /\ access_lock
                          /\ \E u \in Threads \ {t} : gpc[u] = "hw"

\* C33: an operation that times out never writes access_lock.  It reaches
\* the timeout only from the loop of acquire_lock, which it entered from
\* outside the gate, and its steps up to there and its return (entering,
\* each pass of the loop, raising, handing the error to its caller) leave
\* access_lock as it is; so the lock of another operation whose hardware call
\* is in flight is still set when the timed-out caller is back.
C33_TimeoutLeavesLock ==
    [][\A t \in Threads :
        /\ (gpc'[t] = "timeout" /\ gpc[t] # "timeout") => gpc[t] = "test"
        /\ (gpc'[t] = "test" /\ gpc[t] # "test") => gpc[t] = "idle"
        /\ (/\ gpc[t] \in {"idle", "test", "timeout"}
            /\ (gpc'[t] # gpc[t] \/ elapsed'[t] # elapsed[t]))
            => access_lock' = access_lock
      ]_vars

\* C33 witness: the sampler and the control thread are raising the timeout
\* and the operator's call has waited past it, while the PWM thread's
\* set_digital(1) is still in its hardware call with the lock set.
C33_Witness ==
    /\ gpc["pwm"] = "hw"
    /\ garg["pwm"] = 1
    /\ access_lock
    /\ gpc["smp"] = "timeout"
    /\ gpc["ctl"] = "timeout"
    /\ gpc["main"] = "test"
    /\ elapsed["main"] > TimeoutTicks

\* C2: when a step of a control cycle raises, the except clause runs
\* turn_off_pwm: the duty is 0 from then until the cycle ends, whatever the
\* outcome of turn_off_pwm's own write; the thread goes on to the sleep of
\* the finally clause, and a new cycle starts only from that sleep.
C2_Failsafe ==
    [][/\ (c_exc' /\ ~c_exc) => ctl_pc' = "exc"
       /\ (ctl_pc' = "exc" /\ ctl_pc # "exc") => c_exc'
       /\ (ctl_pc = "exc" /\ ctl_pc' # "exc") => (ctl_pc' = "toff" /\ value' = 0)
       /\ (c_exc' /\ ctl_pc' \in {"toff", "sleep"}) => value' = 0
       /\ (ctl_pc = "toff" /\ ctl_pc' # "toff") => ctl_pc' = "sleep"
       /\ (ctl_pc' = "snap" /\ ctl_pc # "snap") => ctl_pc = "sleep"
      ]_vars

\* C2 witness: the cycle that raised is in its final sleep with duty 0, after
\* an earlier step of the control loop had pushed a non-zero duty.
C2_Witness ==
    /\ c_exc
    /\ ctl_pc = "sleep"
    /\ value = 0
    /\ current_results.set
    /\ current_results.pwm \in {Round3(d) : d \in 1..DutyOne}
    /\ enable_control

\* C3: once the cleanup call of turn_off_pwm() has returned, no thread starts
\* a hardware write that drives the heater line high before the process
\* exits.
C3_ShutdownLeavesHeaterOff ==
    [][main_pc = "sd_done"
        => ~(\E t \in Threads : gpc[t] = "set" /\ gpc'[t] = "hw" /\ garg[t] = 1)
      ]_vars

\* C4: a cycle that reads enable_control as False pushes the duty 0.0 and
\* stores 0.0 as vals['pwm']; both are still 0.0 when the cycle publishes its
\* result without an exception.
C4_DisabledMode ==
    [][/\ (ctl_pc = "en" /\ ~enable_control /\ ctl_pc' # "en")
            => (ctl_pc' = "publish" /\ c_mode' = "off" /\ value' = 0 /\ c_pwm' = 0)
       /\ c_mode' = "off" =>
            (ctl_pc' \in {"publish", "callback"} /\ value' = 0 /\ c_pwm' = 0)
       /\ (ctl_pc = "publish" /\ c_mode = "off" /\ ctl_pc' # "publish")
            => (current_results'.set /\ current_results'.pwm = 0 /\ value' = 0)
      ]_vars

\* C4 witness: a disabled cycle is about to publish while the delta is below
\* 0, on/off mode is selected, the PID holds a non-zero integral and the
\* cycle before it had pushed a non-zero duty.
C4_Witness ==
    /\ ctl_pc = "publish"
    /\ c_mode = "off"
    /\ c_delta = -1
    /\ enable_on_off
    /\ pwm_max = DutyOne
    /\ integral \in 1..DutyOne
    /\ current_results.pwm \in {Round3(d) : d \in 1..DutyOne}

\* C5: a cycle that reads control enabled and on/off enabled pushes pwm_max
\* when delta_t is below 0 and 0.0 otherwise (delta_t = 0 and NaN included),
\* and stores the same number as vals['pwm'].
C5_OnOffMode ==
    [][/\ (ctl_pc = "en" /\ enable_control /\ ctl_pc' # "en") => ctl_pc' = "onoff"
       /\ (ctl_pc = "onoff" /\ enable_on_off /\ ctl_pc' # "onoff") => ctl_pc' = "bang"
       /\ (ctl_pc = "bang" /\ ctl_pc' # "bang")
            => /\ ctl_pc' = "publish"
               /\ c_mode' = "bang"
               /\ value' = (IF c_delta # NaN /\ c_delta < 0 THEN pwm_max ELSE 0)
               /\ c_pwm' = value'
      ]_vars

\* C5 witness: an on/off cycle has pushed a partial pwm_max for delta -1.
C5_Witness ==
    /\ ctl_pc = "publish"
    /\ c_mode = "bang"
    /\ c_delta = -1
    /\ pwm_max = 1
    /\ value = 1
    /\ c_pwm = 1

\* C6, the worked example as the specification states it: in PID mode with P = 1.0, I = 0, D = 0, pwm_max = 1.0 and
\* delta_t = +5 the duty pushed is clamp(1.0 * 5.0, 0, 1) = 1.0.
C6_AsClaimed ==
    [][(/\ ctl_pc = "pid"
        /\ ctl_pc' = "publish"
        /\ tunings = <<DutyOne, 0, 0>>
        /\ pwm_max = DutyOne
        /\ out_max = DutyOne
        /\ c_delta = 5)
       => value' = DutyOne]_vars

\* C6, as the controller computes it: in PID mode the duty pushed is clamp(P*e + I + D, 0, L) with
\* e = 0 - delta_t, I the integral term after adding Ki*e, itself clamped to
\* [0, L], D = -Kd * (delta_t - previous delta_t), and L the upper output
\* limit installed by the last completed pwm_max assignment; a NaN delta_t
\* comes out as NaN.  With P = 1.0, I = 0, D = 0, a zero integral and
\* L = 1.0, delta_t = +5 gives 0.0 and delta_t = -1 gives 1.0.
C6_PidMode ==
    [][/\ (ctl_pc = "onoff" /\ ~enable_on_off /\ ctl_pc' # "onoff") => ctl_pc' = "pid"
       /\ (ctl_pc = "pid" /\ ctl_pc' # "pid")
            => /\ ctl_pc' = "publish"
               /\ c_mode' = "pid"
               /\ c_pwm' = value'
               /\ c_delta = NaN => value' = NaN
               /\ c_delta # NaN =>
                    LET e == 0 - c_delta
                        i == Min(Max(integral + tunings[2] * e, 0), out_max)
                        d == IF last_input = <<>> THEN 0
                             ELSE 0 - tunings[3] * (c_delta - last_input[1])
                    IN  /\ value' = Min(Max(tunings[1] * e + i + d, 0), out_max)
                        /\ (tunings = <<DutyOne, 0, 0>> /\ integral = 0
                                /\ out_max = DutyOne)
                            => /\ c_delta = 5 => value' = 0
                               /\ c_delta = -1 => value' = DutyOne
      ]_vars

\* C6 witness: a PID cycle with P = 1.0, I = 0, D = 0 and limit 1.0 has
\* pushed the duty 0 for delta_t = +5.
C6_Witness ==
    /\ ctl_pc = "publish"
    /\ c_mode = "pid"
    /\ c_delta = 5
    /\ tunings = <<DutyOne, 0, 0>>
    /\ pwm_max = DutyOne
    /\ out_max = DutyOne
    /\ value = 0
    /\ c_pwm = 0

\* C10: PWM.value is a number in [0, 1] in every reachable state.
C10_DutyRange == value \in 0..DutyOne

\* ------------------------------------------------------- actuation cycles
\* The events of a complete partial-duty pass at duty d.
PartialCycle(d) ==
    <<Ev("r", d), Ev("w", 1), Ev("r", d), Ev("s", d), Ev("w", 0),
      Ev("s", DutyOne - d)>>

IsPrefix(a, b) == Len(a) <= Len(b) /\ a = SubSeq(b, 1, Len(a))

Raised(log) == log # <<>> /\ log[Len(log)] = Ev("x", 0)

\* The pass ran to its end without an exception.
Completed == pwm_pc = "top" /\ p_log # <<>> /\ ~Raised(p_log)

RECURSIVE SleepTotal(_)
SleepTotal(log) ==
    IF log = <<>> THEN 0
    ELSE (IF log[1][1] = "s" THEN log[1][2] ELSE 0) + SleepTotal(Tail(log))

\* C11: with the duty a constant d, 0 < d < 1, every pass of the PWM loop is
\* write high, sleep period*d, write low, sleep period*(1-d) in that order
\* as far as it gets before a write raises, and a pass whose writes succeed
\* is exactly that sequence, its sleeps adding up to the period.
C11_PartialCycle ==
    (0 < value /\ value < DutyOne) =>
        /\ \/ IsPrefix(p_log, PartialCycle(value))
           \/ /\ Raised(p_log)
              /\ IsPrefix(SubSeq(p_log, 1, Len(p_log) - 1), PartialCycle(value))
        /\ Completed =>
              /\ p_log = PartialCycle(value)
              /\ SleepTotal(p_log) = DutyOne
        /\ pwm_pc = "w_hi" => p_log = SubSeq(PartialCycle(value), 1, 1)
        /\ pwm_pc = "hi_arg" => p_log = SubSeq(PartialCycle(value), 1, 3)
        /\ pwm_pc = "w_lo" => p_log = SubSeq(PartialCycle(value), 1, 4)
        /\ pwm_pc # "w_off"

\* C11 witness: a pass at duty 1/2 has completed: high for half the period,
\* then low for the other half.
C11_Witness ==
    /\ Completed
    /\ value = 1
    /\ p_log = <<Ev("r", 1), Ev("w", 1), Ev("r", 1), Ev("s", 1), Ev("w", 0),
                 Ev("s", DutyOne - 1)>>
    /\ line = 0

\* C12: a pass that reads duty 0 at its start only writes low and then sleeps
\* the whole period; a pass that reads duty 1 at both of its tests only
\* writes high and then sleeps the whole period; set_value may be called at
\* any time.
C12_ExtremeDuties ==
    /\ (p_log # <<>> /\ p_log[1] = Ev("r", 0)) =>
          /\ p_log \in {<<Ev("r", 0)>>,
                        <<Ev("r", 0), Ev("x", 0)>>,
                        <<Ev("r", 0), Ev("w", 0), Ev("s", DutyOne)>>}
          /\ pwm_pc \in {"w_off", "top"}
          /\ pwm_pc = "w_off" <=> Len(p_log) = 1
          /\ gpc["pwm"] \in {"test", "set", "hw"} => garg["pwm"] = 0
    /\ (/\ p_log # <<>>
        /\ p_log[1] = Ev("r", DutyOne)
        /\ Len(p_log) >= 3 => p_log[3] = Ev("r", DutyOne)) =>
          /\ p_log \in {<<Ev("r", DutyOne)>>,
                        <<Ev("r", DutyOne), Ev("x", 0)>>,
                        <<Ev("r", DutyOne), Ev("w", 1), Ev("r", DutyOne),
                          Ev("s", DutyOne)>>}
          /\ pwm_pc \in {"w_hi", "top"}
          /\ pwm_pc = "w_hi" <=> Len(p_log) = 1
          /\ gpc["pwm"] \in {"test", "set", "hw"} => garg["pwm"] = 1

\* C12 witness: a full-on pass has completed with the line high.
C12_Witness ==
    /\ Completed
    /\ p_log = <<Ev("r", DutyOne), Ev("w", 1), Ev("r", DutyOne),
                 Ev("s", DutyOne)>>
    /\ line = 1

\* C13: in every pass that completes, the high sleep and the low sleep add up
\* to the period, set_value being called at any time.
C13_SingleDuty == Completed => SleepTotal(p_log) = DutyOne

\* C14: a write that raises takes the thread to the except clause and then to
\* the start of a new pass, which the thread reaches again and again; and if
\* from some point on the duty stays 0 and no write raises, the line ends up
\* low for good.
C14_FailureRecovery ==
    /\ [][(pwm_pc \in {"w_hi", "w_lo", "w_off"}
            /\ gpc["pwm"] \in {"error", "timeout"}
            /\ gpc'["pwm"] = "idle")
          => (pwm_pc' = "top" /\ Raised(p_log'))]_vars
    /\ [][(pwm_pc = "top" /\ pwm_pc' # "top")
          => p_log' = <<Ev("r", value)>>]_vars
    /\ []<>(pwm_pc = "top")
    /\ (<>[](value = 0) /\ <>[](gpc["pwm"] \notin {"error", "timeout"}))
          => <>[](line = 0)

\* C14 witness: a write raised during a pass that began at a non-zero duty and
\* the thread is at the start of its next pass with the line high.
C14_Witness ==
    /\ pwm_pc = "top"
    /\ Raised(p_log)
    /\ p_log[1] # Ev("r", 0)
    /\ line = 1

\* ------------------------------------------------------------ the sampler
\* C15: whatever a read does (value, device error, gate timeout) the sampler
\* thread goes on to the next channel of channel_list, and it attempts every
\* configured channel again and again.
C15_SamplerKeepsGoing ==
    /\ [][(smp_pc = "read" /\ smp_pc' # "read")
          => (smp_pc' = "idle" /\ smp_ch' = NextIx(smp_ch))]_vars
    /\ [][(smp_pc = "read" /\ gpc["smp"] \in {"error", "timeout"}
            /\ gpc'["smp"] = "idle")
          => (chan' = chan /\ smp_ch' = NextIx(smp_ch))]_vars
    /\ \A i \in 1..Len(channel_list) : []<>(smp_pc = "read" /\ smp_ch = i)

\* C15 witness: the second channel is being read although no read of the
\* first channel has succeeded yet.
C15_Witness ==
    /\ smp_pc = "read"
    /\ smp_ch = 2
    /\ chan[channel_list[1]].first_read
    /\ fed[channel_list[1]] = <<>>

\* C16: once a channel has had RingSize or more successful reads, its buffer
\* holds exactly the last RingSize samples, the oldest in slot ix, and
\* value() is their arithmetic mean.
C16_RingAverage ==
    \A c \in ChannelNumbers :
        Len(fed[c]) = RingSize =>
            /\ \A j \in 1..RingSize :
                  chan[c].ring_buffer[((chan[c].ix + j - 1) % RingSize) + 1]
                      = fed[c][j]
            /\ SameNumber(Mean(chan[c].ring_buffer), Mean(fed[c]))
            /\ Mean(chan[c].ring_buffer)[2] = RingSize

\* C16 witness: a channel whose index has wrapped round holds two different
\* samples.
C16_Witness ==
    /\ Len(fed[channel_list[1]]) = RingSize
    /\ chan[channel_list[1]].ix = 1
    /\ fed[channel_list[1]][1] # fed[channel_list[1]][RingSize]
    /\ smp_pc = "idle"

\* C17: the first successful read of a channel writes its value into every
\* slot, so value() is that value; after k < RingSize successful reads the
\* buffer holds the k samples in slots 0..k-1 and the first sample in the
\* other slots, and no slot holds the initial zero.
C17_FirstSampleSeeding ==
    /\ [][\A c \in ChannelNumbers :
            (chan[c].first_read /\ ~chan'[c].first_read) =>
                /\ Len(fed'[c]) = 1
                /\ \A j \in 1..RingSize : chan'[c].ring_buffer[j] = fed'[c][1]
                /\ SameNumber(Mean(chan'[c].ring_buffer), <<fed'[c][1], 1>>)
         ]_vars
    /\ [](\A c \in ChannelNumbers :
            /\ chan[c].first_read <=> fed[c] = <<>>
            /\ (1 <= Len(fed[c]) /\ Len(fed[c]) < RingSize) =>
                  \A j \in 1..RingSize :
                      chan[c].ring_buffer[j] =
                          IF j <= Len(fed[c]) THEN fed[c][j] ELSE fed[c][1]
            /\ ~chan[c].first_read =>
                  \A j \in 1..RingSize : chan[c].ring_buffer[j] # 0)

\* C17 witness: after two successful reads of different values the third
\* slot of the buffer still holds the first one.
C17_Witness ==
    /\ fed[channel_list[1]] = <<1, 2>>
    /\ 2 < RingSize
    /\ chan[channel_list[1]].ring_buffer[1] = 1
    /\ chan[channel_list[1]].ring_buffer[2] = 2
    /\ \A j \in 3..RingSize : chan[channel_list[1]].ring_buffer[j] = 1
    /\ chan[channel_list[1]].ix = 2

\* C34: a channel's ring buffer, ix and first_read change only in the step
\* in which a read of that channel returns a value; a read that raises, on a
\* device error or on the gate's timeout, leaves every channel as it was from
\* its call to the end of its handling.  So a channel none of whose reads
\* has returned is as constructed however many of them raised, and the
\* first read that returns writes its value into every slot.
C34_FailedReadLeavesChannel ==
    /\ [][\A c \in ChannelNumbers :
            /\ chan'[c] # chan[c] =>
                  (/\ smp_pc = "read" /\ gpc["smp"] = "ok"
                   /\ c = channel_list[smp_ch])
            /\ (/\ smp_pc = "read" /\ smp_pc' # "read"
                /\ gpc["smp"] \in {"error", "timeout"}) =>
                  chan'[c] = chan[c]
            /\ (chan[c].first_read /\ ~chan'[c].first_read) =>
                  /\ chan'[c].ix = 1
                  /\ \E val \in SamplesOf(c) :
                        \A j \in 1..RingSize : chan'[c].ring_buffer[j] = val
         ]_vars
    /\ [](\A c \in ChannelNumbers : chan[c].first_read => chan[c] = NewChannel)

\* C34 witness: the sampler has moved on to the second channel and is in
\* its sleep, so the first channel's read has been made, and it raised: the
\* first channel is as constructed, zeros, ix 0 and first_read set, like the
\* second one, which has not been read yet.
C34_Witness ==
    /\ smp_pc = "idle"
    /\ smp_ch = 2
    /\ gpc["smp"] = "idle"
    /\ chan[channel_list[1]] = NewChannel
    /\ chan[channel_list[2]] = NewChannel

C19_SnapshotAtomic ==
    [][(v_pc = "avg" /\ v_ix > 1) => chan' = chan]_vars

\* ----------------------------------------------------- parameter changes
\* C20: every control cycle decides with the parameters as they are stored
\* when it reads them: the enable flag at its first test (a cycle reaches the
\* on/off test, and so a non-zero duty, only by reading enable_control as
\* True, and pushes 0 when it reads False), the on/off flag at its second,
\* pwm_max in the on/off branch, and in the PID branch the tunings and, once
\* the pwm_max assignment has completed, pwm_max as the output limit.
C20_ParametersTakeEffect ==
    /\ [](main_pc # "lim" => out_max = pwm_max)
    /\ [][/\ (ctl_pc = "en" /\ ctl_pc' # "en") =>
                IF enable_control
                THEN ctl_pc' = "onoff" /\ value' = value
                ELSE ctl_pc' = "publish" /\ value' = 0
          /\ (ctl_pc # "onoff" /\ ctl_pc' = "onoff") =>
                (ctl_pc = "en" /\ enable_control)
          /\ (ctl_pc = "onoff" /\ ctl_pc' # "onoff") =>
                ctl_pc' = (IF enable_on_off THEN "bang" ELSE "pid")
          /\ (ctl_pc' \in {"bang", "pid"} /\ ctl_pc' # ctl_pc) => ctl_pc = "onoff"
          /\ (ctl_pc = "bang" /\ ctl_pc' # "bang") =>
                value' = (IF Lt(c_delta, 0) THEN pwm_max ELSE 0)
          /\ (ctl_pc = "pid" /\ ctl_pc' # "pid" /\ main_pc # "lim"
                /\ c_delta # NaN /\ integral # NaN /\ last_input # <<NaN>>) =>
                LET e == 0 - c_delta
                    i == Min(Max(integral + tunings[2] * e, 0), pwm_max)
                    d == IF last_input = <<>> THEN 0
                         ELSE 0 - tunings[3] * (c_delta - last_input[1])
                IN  value' = Min(Max(tunings[1] * e + i + d, 0), pwm_max)
          /\ (value' # value /\ value' # 0) => ctl_pc \in {"bang", "pid"}
         ]_vars

\* C20 witness: after a cycle that pushed full duty, pwm_max was lowered and
\* the PID cycle that followed has pushed the new maximum.
C20_Witness ==
    /\ ctl_pc = "publish"
    /\ c_mode = "pid"
    /\ main_pc = "op"
    /\ pwm_max = 1
    /\ value = 1
    /\ current_results.set
    /\ current_results.pwm = Round3(DutyOne)

\* ------------------------------------------------------------- reset_pid
\* C22: a call of reset_pid() leaves the PID with a zero integral and no
\* previous input (so the next derivative term is 0), and changes nothing
\* else: not the actuator's duty, pwm_max, the output limit, the tunings,
\* the two enable flags or current_results, and nothing of the other threads.
C22_ResetPidFrame ==
    [][ResetPid =>
         /\ integral' = 0
         /\ last_input' = <<>>
         /\ UNCHANGED <<value, pwm_max, out_max, tunings, enable_control,
                        enable_on_off, current_results, line, gatevars,
                        ctlvars, pwmvars, smpvars, mainvars>>]_vars

\* C22 witness: a PID cycle has pushed a non-zero duty and is about to
\* publish it, and the PID holds neither an integral nor a previous input: it
\* was reset after the cycle's PID call, and the duty is still there.
C22_Witness ==
    /\ ctl_pc = "publish"
    /\ c_mode = "pid"
    /\ integral = 0
    /\ last_input = <<>>
    /\ value \in 1..DutyOne
    /\ c_pwm = value

\* ---------------------------------------------------------------- pwm_max
\* C29: the first statement of an assignment pwm_max = v stores v limited to
\* the range from 0.0 to 1.0 (0.0 for a NaN, which Python's max(0.0, v)
\* discards), the second installs that value as the PID's upper output
\* limit, so whenever no assignment is under way the PID's limits are
\* (0, pwm_max); and pwm_max is between 0.0 and 1.0 in every state.
C29_PwmMaxClamp ==
    /\ [](pwm_max \in 0..DutyOne)
    /\ [](main_pc # "lim" => out_max = pwm_max)
    /\ [][/\ \A v \in PwmMaxInputs :
                SetPwmMaxBegin(v) =>
                    pwm_max' = (IF v = NaN \/ v < 0 THEN 0
                                ELSE IF v > DutyOne THEN DutyOne ELSE v)
          /\ (main_pc = "lim" /\ main_pc' = "op") =>
                (pwm_max' = pwm_max /\ out_max' = pwm_max)
         ]_vars

\* C29 witness: a cycle published full duty under pwm_max = 1.0, and an
\* assignment of a value below 0 (or of NaN) has completed since: the stored
\* maximum and the PID's upper limit are both 0.0.
C29_Witness ==
    /\ main_pc = "op"
    /\ current_results.set
    /\ current_results.pwm = Round3(DutyOne)
    /\ pwm_max = 0
    /\ out_max = 0

\* ------------------------------------------- AnalogChannel, call by call
\* One caller makes read() calls on the channel objects, in any order, and
\* counts them; every call either gets a value from get_analog or has the
\* exception get_analog raised pass through it.
ReadReturns(ch, val) ==
    /\ reads[ch].ok + reads[ch].failed < MaxReads
    /\ chan' = [chan EXCEPT ![ch] = ChannelRead(@, val)]
    /\ fed' = [fed EXCEPT ![ch] = LastN(Append(@, val), RingSize)]
    /\ reads' = [reads EXCEPT ![ch].ok = @ + 1]
    /\ UNCHANGED <<smp_pc, smp_ch, v_pc, v_ix, v_snap, gatevars, groups_ok,
                   thermistors, lj_dev, readings, temps, vals, ra,
                   ra_calls>>
    /\ UNCHANGED <<line, value, pwmvars, ctlvars, pidvars, parvars,
                   current_results, mainvars>>

ReadRaises(ch) ==
    /\ reads[ch].ok + reads[ch].failed < MaxReads
    /\ reads' = [reads EXCEPT ![ch].failed = @ + 1]
    /\ UNCHANGED <<smpvars, gatevars, groups_ok, thermistors, lj_dev,
                   readings, temps, vals, ra, ra_calls>>
    /\ UNCHANGED <<line, value, pwmvars, ctlvars, pidvars, parvars,
                   current_results, mainvars>>

RingNext ==
    \E ch \in ChannelNumbers :
        \/ \E val \in SamplesOf(ch) : ReadReturns(ch, val)
        \/ ReadRaises(ch)

RingSpec == InitExample /\ [][RingNext]_vars

\* C27: after any sequence of read() calls on a channel, those that returned
\* and those that raised, its ring buffer has ring_buffer_size elements, its
\* ix is one of 0 .. ring_buffer_size - 1, and ix is the number of calls that
\* returned, modulo ring_buffer_size.
C27_RingShape ==
    \A ch \in ChannelNumbers :
        /\ DOMAIN chan[ch].ring_buffer = 1..RingSize
        /\ chan[ch].ix \in 0..(RingSize - 1)
        /\ chan[ch].ix = reads[ch].ok % RingSize

\* C27 witness: a channel whose reads have gone round the buffer once and
\* one further, with failed calls among them.
C27_Witness ==
    \E ch \in ChannelNumbers :
        /\ reads[ch].ok = RingSize + 1
        /\ reads[ch].failed > 0
        /\ chan[ch].ix = 1

\* ------------------------------------------------- inter-channel spacing
\* C28: every attempt of the sampler, returned or raised, is followed by the
\* sleep, and a read starts only out of the sleep; while it sleeps the
\* sampler is in no gate operation and access_lock is set only if another
\* thread is in its hardware call; so a thread that is waiting in
\* acquire_lock while the sampler sleeps finds the lock free at its next
\* poll, unless another thread holds it.
C28_InterChannelSpacing ==
    /\ [](smp_pc = "idle" =>
            /\ gpc["smp"] = "idle"
            /\ (access_lock => \E t \in Threads \ {"smp"} : gpc[t] = "hw"))
    /\ [][/\ (gpc["smp"] \in GateReturned /\ gpc'["smp"] # gpc["smp"]) =>
                (smp_pc' = "idle" /\ gpc'["smp"] = "idle")
          /\ (gpc["smp"] # "test" /\ gpc'["smp"] = "test") =>
                (smp_pc = "idle" /\ gpc["smp"] = "idle")
          /\ \A t \in Threads \ {"smp"} :
                (/\ smp_pc = "idle"
                 /\ gpc[t] = "test"
                 /\ gpc'[t] # "test"
                 /\ \A u \in Threads \ {"smp", t} : gpc[u] # "hw") =>
                    gpc'[t] = "set"
         ]_vars

\* C28 witness: the sampler sleeps after a first attempt that raised, the
\* lock is free, and another thread has been waiting in acquire_lock.
C28_Witness ==
    /\ smp_pc = "idle"
    /\ smp_ch = 2
    /\ fed[channel_list[1]] = <<>>
    /\ ~access_lock
    /\ \E t \in Threads \ {"smp"} : gpc[t] = "test" /\ elapsed[t] > 0

\* -------------------------------------------------- the operator's window
\* The control thread beside the handlers of the main window's widgets:
\* enable_heater_change, enable_on_off_change, pid_tuning_change and
\* heater_max_change.
GuiNext ==
    \/ AcquirePoll("ctl") \/ AcquireSet("ctl") \/ HwDone("ctl")
    \/ CtlSnapshot \/ CtlReadEnable \/ CtlReadOnOff \/ CtlBang \/ CtlPid
    \/ CtlPublish \/ CtlCallback \/ CtlExcept \/ CtlTurnOffDone \/ CtlSleep
    \/ \E b \in BOOLEAN : SetEnable(b) \/ EnableOnOffChangeBegin(b)
    \/ EnableOnOffChangeEnd
    \/ \E k \in Tunings : SetTunings(k)
    \/ \E v \in PwmMaxInputs : SetPwmMaxBegin(v)
    \/ SetPwmMaxEnd

GuiSpec == InitExample /\ [][GuiNext]_vars

\* C21 as stated: a step that changes the on/off flag leaves the PID with a
\* zero integral and no previous input.
C21_AsClaimed ==
    [][enable_on_off' # enable_on_off =>
         (integral' = 0 /\ last_input' = <<>>)]_vars

\* C21: the write of the on/off flag stores the flag and changes nothing
\* else, the PID's integral and previous input included; the window's
\* handler calls reset_pid() as its next statement, and when that call
\* returns the PID has a zero integral and no previous input, the flag and
\* everything else being as they were.
C21_ModeSwitchResetsPid ==
    [][/\ enable_on_off' # enable_on_off =>
            /\ main_pc = "op" /\ main_pc' = "rst"
            /\ UNCHANGED <<pidvars, enable_control, pwm_max, value, line,
                           current_results, ctlvars, gatevars>>
       /\ (main_pc = "rst" /\ main_pc' # "rst") =>
            /\ main_pc' = "op"
            /\ integral' = 0
            /\ last_input' = <<>>
            /\ UNCHANGED <<tunings, out_max, parvars, value, line,
                           current_results, ctlvars, gatevars>>
      ]_vars

\* C21 witness: the flag has just been switched to on/off mode and the PID
\* still holds the integral and the previous input of its PID cycles.
C21_Witness ==
    /\ main_pc = "rst"
    /\ enable_on_off
    /\ integral \in 1..DutyOne
    /\ last_input # <<>>

\* ------------------------------------------------------ result publication
\* A published pwm (thousandths) and a duty (quanta of 1 / DutyOne) that are
\* the same number.
SameDuty(r, d) ==
    \/ r = NaN /\ d = NaN
    \/ r # NaN /\ d # NaN /\ r * DutyOne = d * 1000

\* C26 as stated: every cycle ends with a stored record whose pwm is the
\* duty the actuator holds at the end of the cycle.
C26_AsClaimed ==
    [][(ctl_pc # "sleep" /\ ctl_pc' = "sleep") =>
         (current_results'.set /\ SameDuty(current_results'.pwm, value'))]_vars

\* C26: a cycle that reaches the assignment of _current_results stores there
\* a record with the six keys, the cycle's delta_t, and as pwm the duty the
\* cycle passed to set_value rounded to three decimals; the record is in
\* place while the callback runs, and no other step changes
\* _current_results: a cycle that raises earlier leaves the previous record,
\* and a callback that raises leaves the record just stored while the duty
\* goes to 0.
C26_ResultPublication ==
    /\ [](ctl_pc = "callback" =>
            current_results = [set |-> TRUE, keys |-> ResultKeys,
                               delta_t |-> c_delta, pwm |-> Round3(c_pwm)])
    /\ [][/\ (ctl_pc # "publish" /\ ctl_pc' = "publish") => c_pwm' = value'
          /\ (ctl_pc = "publish" /\ ctl_pc' # "publish") =>
                /\ ctl_pc' = "callback"
                /\ current_results' = [set |-> TRUE, keys |-> ResultKeys,
                                       delta_t |-> c_delta,
                                       pwm |-> Round3(c_pwm)]
          /\ current_results' # current_results =>
                (ctl_pc = "publish" /\ ctl_pc' = "callback")
          /\ (ctl_pc' = "callback" /\ ctl_pc # "callback") => ctl_pc = "publish"
          /\ (ctl_pc = "callback" /\ ctl_pc' = "exc") =>
                current_results' = current_results
         ]_vars

\* C26 witness: the callback is running on a record whose pwm, the duty of
\* one quantum rounded to three decimals, is not the duty the actuator holds.
C26_Witness ==
    /\ ctl_pc = "callback"
    /\ value = 1
    /\ c_pwm = 1
    /\ current_results.pwm = Round3(1)
    /\ ~SameDuty(current_results.pwm, value)

\* --------------------------------------------------- Controller.__init__
\* Everything the constructor's steps leave alone.
CtorRest == <<gatevars, line, value, p_log, smp_ch, chan, fed, v_pc, v_ix,
              v_snap, ctlvars, pidvars, parvars, current_results, groups_ok,
              reads, thermistors, readings, temps, vals, ra, ra_calls>>

\* Thermistor.__init__ looks its type up in coeff.
KnownTypes(group) == \A i \in 1..Len(group) : group[i] \in CoeffKeys
AllKnown == /\ KnownTypes(thermistors.outer)
            /\ KnownTypes(thermistors.inner)
            /\ KnownTypes(thermistors.info)

\* The three loops with a Thermistor that keeps its type name and looks the
\* coefficients up when a temperature is asked for.
CtorThermistors_LazyLookup ==
    /\ main_pc = "ctor"
    /\ main_pc' = "ctor_dev"
    /\ UNCHANGED <<pwm_pc, smp_pc, lj_dev>>
    /\ UNCHANGED CtorRest

\* The three loops that make the Thermistor objects of the outer, the inner
\* and the info group: coeff[therm_name] raises KeyError for a type that is
\* not a key of the table.
CtorThermistors ==
    /\ main_pc = "ctor"
    /\ main_pc' = IF AllKnown THEN "ctor_dev" ELSE "ctor_raised"
    /\ UNCHANGED <<pwm_pc, smp_pc, lj_dev>>
    /\ UNCHANGED CtorRest

\* self.lj_dev = U3protected(): u3.U3() opens the device, reads its
\* calibration data and writes its configuration, or raises when no device
\* answers.
CtorOpen ==
    /\ main_pc = "ctor_dev"
    /\ \/ lj_dev' = "open" /\ main_pc' = "ctor_pwm"
       \/ lj_dev' = lj_dev /\ main_pc' = "ctor_raised"
    /\ UNCHANGED <<pwm_pc, smp_pc>>
    /\ UNCHANGED CtorRest

\* self.pwm = PWM(...) and self.pwm.start().
CtorStartPwm ==
    /\ main_pc = "ctor_pwm"
    /\ pwm_pc' = "top"
    /\ main_pc' = "ctor_reader"
    /\ UNCHANGED <<smp_pc, lj_dev>>
    /\ UNCHANGED CtorRest

\* self.an_reader = AnalogReader(...) and self.an_reader.start().
CtorStartReader ==
    /\ main_pc = "ctor_reader"
    /\ smp_pc' = "idle"
    /\ main_pc' = "ctor_sleep"
    /\ UNCHANGED <<pwm_pc, lj_dev>>
    /\ UNCHANGED CtorRest

\* time.sleep(0.5), "delay to get at least the first reading in the readings
\* ring buffer".  A read and its spacing take milliseconds, so the half
\* second is taken to outlast one pass of the reader's for loop: the sleep
\* is still on when the loop is at the last channel of channel_list ...
CtorSleepFirst ==
    /\ main_pc = "ctor_sleep"
    /\ smp_ch = Len(channel_list)
    /\ main_pc' = "ctor_sleep2"
    /\ UNCHANGED <<pwm_pc, smp_pc, lj_dev>>
    /\ UNCHANGED CtorRest

\* ... and it ends once the loop is back at the first channel, in its
\* spacing sleep or later.
CtorSleepRest ==
    /\ main_pc = "ctor_sleep2"
    /\ smp_ch = 1
    /\ main_pc' = "ctor_pid"
    /\ UNCHANGED <<pwm_pc, smp_pc, lj_dev>>
    /\ UNCHANGED CtorRest

\* The PID object and the four initial assignments, whose values the state
\* holds from the start.
CtorFinish ==
    /\ main_pc = "ctor_pid"
    /\ main_pc' = "op"
    /\ UNCHANGED <<pwm_pc, smp_pc, lj_dev>>
    /\ UNCHANGED CtorRest

\* The call of Controller(...): no device, no thread, any configuration with
\* one inner and one info thermistor.
CtorInit ==
    /\ access_lock = FALSE
    /\ gpc = [t \in Threads |-> "idle"]
    /\ elapsed = [t \in Threads |-> 0]
    /\ garg = [t \in Threads |-> 0]
    /\ line = 0
    /\ value = 0
    /\ pwm_pc = "new"
    /\ p_log = <<>>
    /\ smp_pc = "new"
    /\ smp_ch = 1
    /\ chan = [c \in ChannelNumbers |-> NewChannel]
    /\ fed = [c \in ChannelNumbers |-> <<>>]
    /\ v_pc = "idle"
    /\ v_ix = 0
    /\ v_snap = <<>>
    /\ ctl_pc = "new"
    /\ c_delta = 0
    /\ c_pwm = 0
    /\ c_mode = "none"
    /\ c_exc = FALSE
    /\ enable_control = FALSE
    /\ enable_on_off = FALSE
    /\ pwm_max = DutyOne
    /\ out_max = pwm_max
    /\ tunings = <<DutyOne, 0, 0>>
    /\ integral = 0
    /\ last_input = <<>>
    /\ current_results = [set |-> FALSE, keys |-> {}, delta_t |-> 0, pwm |-> 0]
    /\ main_pc = "ctor"
    /\ thermistors \in [outer : GroupConfigs, inner : GroupConfigs \ {<<>>},
                         info : GroupConfigs \ {<<>>}]
    /\ groups_ok = (thermistors.outer # <<>> /\ thermistors.inner # <<>>)
    /\ reads = [c \in ChannelNumbers |-> [ok |-> 0, failed |-> 0]]
    /\ lj_dev = "closed"
    /\ readings = <<>>
    /\ temps = NoTemps
    /\ vals = NoVals
    /\ ra = NoAverage
    /\ ra_calls = NoCalls

\* The construction, and the two threads it starts running beside it and
\* after it; nobody calls set_value, so the duty stays 0.0.
CtorNext ==
    \/ CtorThermistors \/ CtorOpen \/ CtorStartPwm \/ CtorStartReader
    \/ CtorSleepFirst \/ CtorSleepRest \/ CtorFinish
    \/ \E t \in {"pwm", "smp"} : AcquirePoll(t) \/ AcquireSet(t) \/ HwDone(t)
    \/ PwmTop \/ PwmLowDone
    \/ SmpRead \/ SmpDone

CtorSpec == CtorInit /\ [][CtorNext]_vars

\* C24: a construction whose configuration names a thermistor type that is
\* not a key of the coefficient table leaves the loops by raising, and with
\* such a configuration the device is never opened, no thread is started
\* and no gate operation, hence no hardware read or write, is ever made.
C24_FailFast ==
    /\ [](~AllKnown =>
            /\ main_pc \in {"ctor", "ctor_raised"}
            /\ lj_dev = "closed"
            /\ pwm_pc = "new"
            /\ smp_pc = "new"
            /\ ctl_pc = "new"
            /\ \A t \in Threads : gpc[t] = "idle"
            /\ ~access_lock
            /\ line = 0)
    /\ [][(main_pc = "ctor" /\ main_pc' # "ctor" /\ ~AllKnown) =>
             main_pc' = "ctor_raised"]_vars

\* C24 witness: the constructor has raised on the unknown type of the info
\* group, the last of the three loops, after the outer and the inner group
\* were built.
C24_Witness ==
    /\ main_pc = "ctor_raised"
    /\ thermistors.outer = ExampleGroup
    /\ thermistors.inner = ExampleGroup
    /\ thermistors.info = <<"PT100">>
    /\ lj_dev = "closed"

\* ----------------------------------------- from construction to control
\* controller.start() once Controller(...) has returned: run() begins.
ControllerStart ==
    /\ main_pc = "op"
    /\ ctl_pc = "new"
    /\ ctl_pc' = "snap"
    /\ UNCHANGED <<c_delta, c_pwm, c_mode, c_exc, gatevars, line, value,
                   pwmvars, smpvars, pidvars, parvars, current_results,
                   mainvars, cfgvars>>

\* The construction with the example's groups.
StartInit ==
    /\ CtorInit
    /\ thermistors = [outer |-> ExampleGroup, inner |-> ExampleGroup,
                      info |-> ExampleGroup]

\* The construction, the reader thread it starts, and the control thread
\* started after it, with an operator who switches the control on.
StartNext ==
    \/ CtorThermistors \/ CtorOpen \/ CtorStartPwm \/ CtorStartReader
    \/ CtorSleepFirst \/ CtorSleepRest \/ CtorFinish
    \/ ControllerStart
    \/ \E t \in {"smp", "ctl"} : AcquirePoll(t) \/ AcquireSet(t) \/ HwDone(t)
    \/ SmpRead \/ SmpDone
    \/ CtlSnapshot \/ CtlReadEnable \/ CtlReadOnOff \/ CtlPid
    \/ CtlPublish \/ CtlCallback \/ CtlExcept \/ CtlTurnOffDone \/ CtlSleep
    \/ SetEnable(TRUE)

StartSpec == StartInit /\ [][StartNext]_vars

\* C31: once the control loop runs, from its first cycle on, every
\* configured channel has had a read that returned a value: no channel's
\* buffer is still the zeros of its construction when a cycle takes its
\* readings and computes a duty.
C31_FirstReadingPrecedesControl ==
    ctl_pc # "new" => \A c \in ChannelNumbers : ~chan[c].first_read

\* ------------------------------------------------ before the first enabling
\* The actuator and the control thread from the constructed state on, with
\* an operator who changes the on/off flag, the tunings and pwm_max in any
\* way and then enables the control, once, at any time.
OffNext ==
    \/ \E t \in {"pwm", "ctl"} : AcquirePoll(t) \/ AcquireSet(t) \/ HwDone(t)
    \/ PwmTop \/ PwmHighDone \/ PwmHighSleep \/ PwmLowDone
    \/ CtlSnapshot \/ CtlReadEnable \/ CtlReadOnOff \/ CtlBang \/ CtlPid
    \/ CtlPublish \/ CtlCallback \/ CtlExcept \/ CtlTurnOffDone \/ CtlSleep
    \/ SetEnable(TRUE)
    \/ /\ ~enable_control
       /\ \/ \E b \in BOOLEAN : SetOnOff(b)
          \/ \E k \in Tunings : SetTunings(k)
          \/ \E v \in PwmMaxInputs : SetPwmMaxBegin(v)
          \/ SetPwmMaxEnd

OffSpec == InitExample /\ [][OffNext]_vars

\* C35: from the constructed state, where the PWM has duty 0 and
\* enable_control is False, and for as long as enable_control has not been
\* set to True, the duty is 0, the heater line is low, the PWM thread is
\* never in the branch that writes the line high and passes only 0 to
\* set_digital, and no cycle enters the control branch; this whatever the
\* sensors give and however the on/off flag, the tunings and pwm_max change.
\* (The operator of this specification enables once and never disables, so
\* enable_control is False exactly until the first enabling.)
C35_OffUntilEnabled ==
    /\ [](~enable_control =>
            /\ value = 0
            /\ line = 0
            /\ pwm_pc \in {"top", "w_off"}
            /\ garg["pwm"] = 0
            /\ c_pwm = 0
            /\ ctl_pc \notin {"onoff", "bang", "pid"}
            /\ (current_results.set => current_results.pwm = 0))
    /\ [][~enable_control => (value' = 0 /\ line' = 0)]_vars

\* C35 witness: the control is still disabled; the operator has switched
\* the on/off flag on, chosen other tunings and lowered pwm_max, the sensors
\* read inner below outer, a disabled cycle has set the duty and published
\* it, and the PWM thread is in an off pass with the line low.
C35_Witness ==
    /\ ~enable_control
    /\ enable_on_off
    /\ tunings = <<1, 1, 1>>
    /\ pwm_max = 0
    /\ out_max = 0
    /\ c_delta = -1
    /\ c_mode = "off"
    /\ ctl_pc = "callback"
    /\ current_results.set
    /\ current_results.pwm = 0
    /\ pwm_pc = "w_off"
    /\ gpc["pwm"] = "ok"
    /\ value = 0
    /\ line = 0

\* --------------------------------------------------- an empty control group
\* The constructed application with no outer thermistor, init_pwm_max 1.0 and
\* proportional-only tunings.
EmptyInit ==
    /\ Init
    /\ ~groups_ok
    /\ pwm_max = DutyOne
    /\ tunings = <<DutyOne, 0, 0>>

\* Its actuator and its control thread, and an operator who switches the
\* control and the on/off mode on and off.
EmptyNext ==
    \/ \E t \in {"pwm", "ctl"} : AcquirePoll(t) \/ AcquireSet(t) \/ HwDone(t)
    \/ PwmTop \/ PwmHighDone \/ PwmHighSleep \/ PwmLowDone
    \/ CtlSnapshot \/ CtlReadEnable \/ CtlReadOnOff \/ CtlBang \/ CtlPid
    \/ CtlPublish \/ CtlCallback \/ CtlExcept \/ CtlTurnOffDone \/ CtlSleep
    \/ \E b \in BOOLEAN : SetEnable(b) \/ SetOnOff(b)

EmptySpec == EmptyInit /\ [][EmptyNext]_vars

\* C36: with an inner or an outer group that has no thermistor, delta_t is
\* NaN in every cycle that gets that far, the duty is 0 in every state, in
\* every mode, and the heater line is never high.
C36_EmptyGroup ==
    (thermistors.inner = <<>> \/ thermistors.outer = <<>>) =>
        /\ ctl_pc \in {"en", "onoff", "bang", "pid", "publish"} => c_delta = NaN
        /\ value = 0
        /\ line = 0

\* ------------------------------------- the control cycle, lookup by lookup
\* Thermistor(thermistor_type, channel, THERMISTOR_APPLIED_V_CH, ...): the
\* two keys temperature() looks up, the thermistor's own channel first.
therm_ch == channel_list[1]
applied_ch == channel_list[Len(channel_list)]

\* The thermistors in the order the cycle summarizes their groups.
AllThermistors == thermistors.inner \o thermistors.outer \o thermistors.info

\* readings[self.therm_ch] or readings[self.applied_ch] raises KeyError for
\* some thermistor.
LookupFails(r) ==
    /\ AllThermistors # <<>>
    /\ (therm_ch \notin DOMAIN r \/ applied_ch \notin DOMAIN r)

CycleRest == <<gatevars, line, value, pwmvars, smpvars, pidvars, parvars,
               current_results, mainvars, groups_ok, reads, thermistors,
               lj_dev, temps, vals, ra, ra_calls>>

\* readings = self.an_reader.values()
CtlValues ==
    /\ Alive
    /\ ctl_pc = "snap"
    /\ \E r \in ReadingDicts : readings' = r
    /\ ctl_pc' = "summ"
    /\ UNCHANGED <<c_delta, c_pwm, c_mode, c_exc>>
    /\ UNCHANGED CycleRest

\* The three summaries and delta_t where a missing key yields a temperature
\* of 0.0 in place of the exception.
CtlSummaries_DefaultOnMissing ==
    /\ Alive
    /\ ctl_pc = "summ"
    /\ \E d \in ReadDeltas : c_delta' = d
    /\ ctl_pc' = "en"
    /\ UNCHANGED <<c_pwm, c_mode, c_exc, readings>>
    /\ UNCHANGED CycleRest

\* The three calls of summarize_thermistor_group and delta_t: the first
\* lookup of a missing key raises KeyError out of the try block.
CtlSummaries ==
    /\ Alive
    /\ ctl_pc = "summ"
    /\ IF LookupFails(readings)
       THEN /\ ctl_pc' = "exc"
            /\ c_exc' = TRUE
            /\ UNCHANGED c_delta
       ELSE /\ \E d \in ReadDeltas : c_delta' = d
            /\ ctl_pc' = "en"
            /\ UNCHANGED c_exc
    /\ UNCHANGED <<c_pwm, c_mode, readings>>
    /\ UNCHANGED CycleRest

\* The application running with any configuration of known thermistor
\* types, control switched on and off by the operator.
CycleInit ==
    /\ access_lock = FALSE
    /\ gpc = [t \in Threads |-> "idle"]
    /\ elapsed = [t \in Threads |-> 0]
    /\ garg = [t \in Threads |-> 0]
    /\ line = 0
    /\ value = 0
    /\ pwm_pc = "top"
    /\ p_log = <<>>
    /\ smp_pc = "idle"
    /\ smp_ch = 1
    /\ chan = [c \in ChannelNumbers |-> NewChannel]
    /\ fed = [c \in ChannelNumbers |-> <<>>]
    /\ v_pc = "idle"
    /\ v_ix = 0
    /\ v_snap = <<>>
    /\ ctl_pc = "snap"
    /\ c_delta = 0
    /\ c_pwm = 0
    /\ c_mode = "none"
    /\ c_exc = FALSE
    /\ enable_control = FALSE
    /\ enable_on_off = FALSE
    /\ pwm_max = DutyOne
    /\ out_max = pwm_max
    /\ tunings = <<DutyOne, 0, 0>>
    /\ integral = 0
    /\ last_input = <<>>
    /\ current_results = [set |-> FALSE, keys |-> {}, delta_t |-> 0, pwm |-> 0]
    /\ main_pc = "op"
    /\ thermistors \in [outer : GroupConfigs, inner : GroupConfigs,
                         info : GroupConfigs]
    /\ AllKnown
    /\ groups_ok = (thermistors.outer # <<>> /\ thermistors.inner # <<>>)
    /\ reads = [c \in ChannelNumbers |-> [ok |-> 0, failed |-> 0]]
    /\ lj_dev = "open"
    /\ readings = <<>>
    /\ temps = NoTemps
    /\ vals = NoVals
    /\ ra = NoAverage
    /\ ra_calls = NoCalls

CycleNext ==
    \/ AcquirePoll("ctl") \/ AcquireSet("ctl") \/ HwDone("ctl")
    \/ CtlValues \/ CtlSummaries
    \/ CtlReadEnable \/ CtlReadOnOff \/ CtlBang \/ CtlPid
    \/ CtlPublish \/ CtlCallback \/ CtlExcept \/ CtlTurnOffDone \/ CtlSleep
    \/ \E b \in BOOLEAN : SetEnable(b) \/ SetOnOff(b)

CycleSpec == CycleInit /\ [][CycleNext]_vars

\* C30: a cycle whose snapshot lacks the voltage channel or the
\* applied-voltage channel of a configured thermistor, of whichever group,
\* leaves the summaries by raising: it takes no delta_t from them, stores no
\* record (current_results stays what it was until the cycle is over), and
\* its except clause sets the duty to 0, where it is when the cycle ends.
C30_MissingChannel ==
    [][/\ (/\ ctl_pc = "summ" /\ ctl_pc' # "summ"
           /\ \E g \in {"inner", "outer", "info"} :
                 /\ thermistors[g] # <<>>
                 /\ (therm_ch \notin DOMAIN readings
                        \/ applied_ch \notin DOMAIN readings)) =>
              (ctl_pc' = "exc" /\ c_exc' /\ c_delta' = c_delta)
       /\ c_exc => current_results' = current_results
       /\ (c_exc /\ ctl_pc \in {"exc", "toff"} /\ ctl_pc' # ctl_pc) => value' = 0
       /\ (ctl_pc = "exc" /\ ctl_pc' # "exc") => ctl_pc' = "toff"
       /\ (ctl_pc = "toff" /\ ctl_pc' # "toff") => ctl_pc' = "sleep"
      ]_vars

\* C30 witness: the inner and outer groups have a thermistor each, the
\* snapshot has their voltage and lacks the applied voltage, and the cycle,
\* which followed one that had pushed and published full duty, ends with the
\* duty at 0 and that earlier record still in place.
C30_Witness ==
    /\ ctl_pc = "sleep"
    /\ c_exc
    /\ thermistors.inner # <<>>
    /\ thermistors.outer # <<>>
    /\ thermistors.info = <<>>
    /\ DOMAIN readings = {therm_ch}
    /\ value = 0
    /\ current_results.set
    /\ current_results.pwm = Round3(DutyOne)

\* ------------------------------------------- group averages and delta_t
\* round(num / den, 2) of a quotient of thousandths, in hundredths: the
\* nearest hundredth; where the quotient is halfway between two, the float
\* that stands for it lies on one side or the other, and either is returned.
Round2(num, den) ==
    LET q == (2 * num + 10 * den) \div (20 * den)
    IN  IF (2 * num + 10 * den) % (20 * den) = 0 THEN {q - 1, q} ELSE {q}

\* result['average'] with the quotient cut to two decimals.
GroupAverage_Truncated(t) ==
    IF t = <<>> THEN {NaN} ELSE {SumSeq(t) \div (10 * Len(t))}

\* summarize_thermistor_group, result['average']:
\* round(sum(temps) / len(temps), 2), and np.nan for no temperatures.
GroupAverage(t) ==
    IF t = <<>> THEN {NaN} ELSE Round2(SumSeq(t), Len(t))

\* summarize_thermistor_group, the loop: temps.append(temp) for one more
\* thermistor of group g, of a group of any size up to MaxGroup.
AppendTemp(g, t) ==
    /\ vals.at = "start"
    /\ Len(temps[g]) < MaxGroup
    /\ temps' = [temps EXCEPT ![g] = Append(@, t)]
    /\ UNCHANGED vals

\* vals['inner'] and vals['outer'] = summarize_thermistor_group(...), after
\* the loops: the two averages.
Summarize ==
    /\ vals.at = "start"
    /\ \E ia \in GroupAverage(temps.inner), oa \in GroupAverage(temps.outer) :
          vals' = [vals EXCEPT !.at = "summarized", !.inner = ia, !.outer = oa]
    /\ UNCHANGED temps

\* delta_t = vals['inner']['average'] - vals['outer']['average'] and
\* vals['delta_t'] = round(delta_t, 2): the difference of two numbers of two
\* decimals, rounded to two decimals, is their difference.
DeltaT ==
    /\ vals.at = "summarized"
    /\ vals' = [vals EXCEPT !.at = "delta_t",
                            !.delta_t = Sub(vals.inner, vals.outer)]
    /\ UNCHANGED temps

\* The next cycle: vals = {} and, in each summary, temps = [].
NextCycle ==
    /\ vals.at = "delta_t"
    /\ temps' = NoTemps
    /\ vals' = NoVals

DeltaRest == <<gatevars, line, value, pwmvars, smpvars, ctlvars, pidvars,
               parvars, current_results, mainvars, groups_ok, reads,
               thermistors, lj_dev, readings, ra, ra_calls>>

DeltaNext ==
    /\ \/ \E g \in {"inner", "outer"}, t \in Temps : AppendTemp(g, t)
       \/ Summarize \/ DeltaT \/ NextCycle
    /\ UNCHANGED DeltaRest

DeltaSpec == InitExample /\ [][DeltaNext]_vars

Abs(x) == IF x < 0 THEN -x ELSE x

\* C25 as stated: delta_t is the difference of the two means, rounded to two
\* decimals.
C25_AsClaimed ==
    (vals.at = "delta_t" /\ temps.inner # <<>> /\ temps.outer # <<>>) =>
        LET li == Len(temps.inner)
            lo == Len(temps.outer)
            diff == SumSeq(temps.inner) * lo - SumSeq(temps.outer) * li
        IN  2 * Abs(10 * vals.delta_t * li * lo - diff) <= 10 * li * lo

\* C25: each group's average is the mean of its temperatures rounded to two
\* decimals (a nearest hundredth), or NaN for a group without temperatures,
\* and delta_t is the inner average minus the outer average as so rounded,
\* NaN if either is NaN.  It is therefore within a hundredth of the
\* difference of the means rounded to two decimals, and inner 75.0 with
\* outer 70.0 give 5.0.
C25_DeltaT ==
    /\ vals.at \in {"summarized", "delta_t"} =>
          \A g \in {"inner", "outer"} :
              IF temps[g] = <<>>
              THEN vals[g] = NaN
              ELSE /\ vals[g] # NaN
                   /\ 2 * Abs(10 * vals[g] * Len(temps[g]) - SumSeq(temps[g]))
                        <= 10 * Len(temps[g])
    /\ vals.at = "delta_t" =>
          /\ (vals.inner = NaN \/ vals.outer = NaN) => vals.delta_t = NaN
          /\ (vals.inner # NaN /\ vals.outer # NaN) =>
                /\ vals.delta_t = vals.inner - vals.outer
                /\ LET li == Len(temps.inner)
                       lo == Len(temps.outer)
                       diff == SumSeq(temps.inner) * lo
                                 - SumSeq(temps.outer) * li
                   IN  2 * Abs(10 * vals.delta_t * li * lo - diff)
                         <= 30 * li * lo
          /\ (temps.inner = <<75000>> /\ temps.outer = <<70000>>) =>
                vals.delta_t = 500

\* C25 witness: inner 70.004 and outer 69.996 both average 70.0 and delta_t
\* is 0.0, where the means differ by 0.008.
C25_Witness ==
    /\ vals.at = "delta_t"
    /\ temps.inner = <<70004>>
    /\ temps.outer = <<69996>>
    /\ vals.inner = 7000
    /\ vals.outer = 7000
    /\ vals.delta_t = 0

\* ---------------------------------------------------------- RollingAverage
\* RollingAverage.__init__(max_period): a new object; the caller has passed
\* it no reading yet.
RaNew(p) ==
    /\ ra' = [max_period |-> p, values |-> <<>>, ix |-> 0]
    /\ ra_calls' = NoCalls

\* add_reading with an ix that stays where it is.
AddReadingTo_NoAdvance(r, val) ==
    IF Len(r.values) < r.max_period
    THEN [r EXCEPT !.values = Append(@, val)]
    ELSE [r EXCEPT !.values[r.ix + 1] = val]

\* add_reading, the update of the object: append while the list is shorter
\* than max_period, else overwrite slot ix and advance it, wrapping.
\* (Slot j of the list is element j + 1 here.)
AddReadingTo(r, val) ==
    IF Len(r.values) < r.max_period
    THEN [r EXCEPT !.values = Append(@, val)]
    ELSE [r EXCEPT !.values[r.ix + 1] = val,
                   !.ix = (r.ix + 1) % r.max_period]

\* add_reading(val) on an object that has been made: the update and
\* return sum(self.values) / len(self.values).
AddReading(val) ==
    /\ ra.max_period > 0
    /\ Len(ra_calls.added) < MaxAdds
    /\ ra' = AddReadingTo(ra, val)
    /\ ra_calls' = [added |-> Append(ra_calls.added, val),
                    returned |-> Mean(ra'.values)]

RaRest == <<gatevars, line, value, pwmvars, smpvars, ctlvars, pidvars,
            parvars, current_results, mainvars, groups_ok, reads,
            thermistors, lj_dev, readings, temps, vals>>

RaNext ==
    /\ \/ \E p \in 1..MaxPeriod : RaNew(p)
       \/ \E val \in RaReadings : AddReading(val)
    /\ UNCHANGED RaRest

RaSpec == InitExample /\ [][RaNext]_vars

\* C32: on an object made with max_period >= 1, after n >= 1 readings the
\* value add_reading returned is the mean of the last min(n, max_period)
\* readings.  While n <= max_period the list is the readings so far in
\* order; from then on it holds the last max_period readings, the oldest in
\* slot ix, and a further reading overwrites that oldest one.
C32_RollingAverage ==
    /\ [](LET n == Len(ra_calls.added)
              p == ra.max_period
              last == LastN(ra_calls.added, Min(n, p))
          IN  n >= 1 =>
                /\ Len(last) = Min(n, p)
                /\ ra_calls.returned[2] = Min(n, p)
                /\ SameNumber(ra_calls.returned, Mean(last))
                /\ Len(ra.values) = Min(n, p)
                /\ n <= p => (ra.values = ra_calls.added /\ ra.ix = 0)
                /\ n >= p =>
                      \A j \in 1..p :
                          ra.values[((ra.ix + j - 1) % p) + 1] = last[j])
    /\ [][(/\ Len(ra_calls.added) >= ra.max_period
           /\ Len(ra_calls'.added) = Len(ra_calls.added) + 1) =>
              LET n == Len(ra_calls.added)
                  p == ra.max_period
                  oldest == ra_calls.added[n - p + 1]
              IN  /\ ra.values[ra.ix + 1] = oldest
                  /\ ra'.values =
                        [ra.values EXCEPT ![ra.ix + 1] = ra_calls'.added[n + 1]]
         ]_vars

\* C32 witness: with max_period 2, the readings 0, 1, 3, 3 have been added;
\* the list has been overwritten twice and the value returned is 3, the mean
\* of the last two.
C32_Witness ==
    /\ ra.max_period = 2
    /\ ra_calls.added = <<0, 1, 3, 3>>
    /\ ra.values = <<3, 3>>
    /\ ra.ix = 0
    /\ ra_calls.returned = <<6, 2>>

\* ------------------------------------------------------------ turn_off_pwm
\* The operator beside the control thread, in the example configuration.
OpSpec == InitExample /\ [][CtlNext]_vars

\* C23: a call of turn_off_pwm() ends only by returning, whatever its
\* set_digital call did (returned, raised, timed out), and when it returns
\* the actuator's duty is 0, so that a second call straight after finds the
\* duty at 0 and leaves it there.
C23_TurnOffPwm ==
    [][/\ (main_pc = "toff" /\ main_pc' # "toff") =>
            (main_pc' = "op" /\ gpc["main"] \in GateReturned /\ value' = 0)
       /\ (main_pc = "op" /\ main_pc' = "toff") => value' = 0
      ]_vars

====
